---- MODULE Spec2Model ----
(***************************************************************************)
(* Model of the KB Labs setup engine: the transactional executor           *)
(* (packages/setup-engine/src/executor.ts), the change journal and the     *)
(* planner's staging.                                                      *)
(*                                                                         *)
(* Strings are sequences of characters.  A multi-letter name whose inner   *)
(* letters play no role ("scripts", "c1", "..") is written as one          *)
(* character.  Paths given in operations are strings; resolved paths are   *)
(* sequences of segments.                                                  *)
(***************************************************************************)
EXTENDS Integers, Sequences, FiniteSets, TLC

(***************************************************************************)
(* Bounds of the model.                                                    *)
(***************************************************************************)
MaxOps == 2
MaxClock == 1

(***************************************************************************)
(* Strings and paths                                                       *)
(***************************************************************************)
Last(s) == s[Len(s)]
Front(s) == SubSeq(s, 1, Len(s) - 1)

\* the characters of the class [a-zA-Z0-9._-] that occur in the model
SafeChars == {"a", "p", "x", "w", "i", "j", "s", "c1", "c2", "scripts",
              "0", "1", ".", "..", "_", "-", "bak", "log"}

\* value.replace(/[^a-zA-Z0-9._-]/g, '_')
sanitizeForFilename(value) ==
  [i \in 1..Len(value) |-> IF value[i] \in SafeChars THEN value[i] ELSE "_"]

\* str.split(sep): the pieces between the separators, as a sequence of strings
RECURSIVE SplitFrom(_, _, _, _)
SplitFrom(str, sep, i, cur) ==
  IF i > Len(str) THEN <<cur>>
  ELSE IF str[i] = sep THEN <<cur>> \o SplitFrom(str, sep, i + 1, <<>>)
  ELSE SplitFrom(str, sep, i + 1, Append(cur, str[i]))
Split(str, sep) == SplitFrom(str, sep, 1, <<>>)

\* segs.join(sep)
RECURSIVE Join(_, _)
Join(segs, sep) ==
  IF Len(segs) = 0 THEN <<>>
  ELSE IF Len(segs) = 1 THEN segs[1]
  ELSE segs[1] \o <<sep>> \o Join(Tail(segs), sep)

\* normalisation of a segment list: "" and "." are dropped, ".." pops
RECURSIVE Normalize(_, _)
Normalize(segs, acc) ==
  IF Len(segs) = 0 THEN acc
  ELSE IF segs[1] = <<>> \/ segs[1] = <<".">> THEN Normalize(Tail(segs), acc)
  ELSE IF segs[1] = <<"..">>
    THEN Normalize(Tail(segs), IF Len(acc) = 0 THEN acc ELSE Front(acc))
  ELSE Normalize(Tail(segs), Append(acc, segs[1]))

\* the workspace root /w, resolved
workspaceRoot == << <<"w">> >>

\* path.resolve(root, filePath): an absolute filePath replaces the root
pathResolve(root, filePath) ==
  IF Len(filePath) > 0 /\ filePath[1] = "/"
    THEN Normalize(Split(filePath, "/"), <<>>)
    ELSE Normalize(Split(filePath, "/"), root)

IsPrefix(p, s) == Len(p) <= Len(s) /\ SubSeq(s, 1, Len(p)) = p

\* resolveWorkspacePath: the resolved path is the root or lies below it
InsideWorkspace(root, filePath) ==
  LET resolved == pathResolve(root, filePath)
  IN resolved = root \/ (Len(resolved) > Len(root) /\ IsPrefix(root, resolved))

\* path.relative(root, target) for a target below the root
pathRelative(root, target) ==
  Join(SubSeq(target, Len(root) + 1, Len(target)), "/")

(***************************************************************************)
(* JSON values.  An object keeps its keys in insertion order, as a         *)
(* sequence of key/value pairs; Undef is JavaScript's undefined.           *)
(***************************************************************************)
Undef == [t |-> "u"]
Null == [t |-> "n"]
Str(s) == [t |-> "s", s |-> s]
Obj(kv) == [t |-> "o", kv |-> kv]
Arr(items) == [t |-> "a", items |-> items]
EmptyObj == Obj(<<>>)
\* a plain object: typeof v === 'object', not null, not an array
IsObj(v) == v.t = "o"
IsArr(v) == v.t = "a"
\* v != null && typeof v === 'object'
IsObject(v) == IsObj(v) \/ IsArr(v)

\* the position in an array that the property name k addresses, 0 when k is
\* no index of the arrays modelled
ArrayIndex(k) == IF k = <<"0">> THEN 1 ELSE 0

\* k in o
HasKey(o, k) ==
  IF IsArr(o) THEN ArrayIndex(k) \in 1..Len(o.items)
  ELSE IsObj(o) /\ \E i \in 1..Len(o.kv) : o.kv[i].k = k
KeyIndex(o, k) == CHOOSE i \in 1..Len(o.kv) : o.kv[i].k = k
\* o[k]
GetKey(o, k) ==
  IF ~HasKey(o, k) THEN Undef
  ELSE IF IsArr(o) THEN o.items[ArrayIndex(k)]
  ELSE o.kv[KeyIndex(o, k)].v
\* o[k] = v: an existing key keeps its place, a new key is appended; a
\* property of an array that is no index is not serialised
PutKey(o, k, v) ==
  IF IsArr(o)
    THEN IF HasKey(o, k) THEN Arr([o.items EXCEPT ![ArrayIndex(k)] = v]) ELSE o
  ELSE IF HasKey(o, k)
    THEN Obj([o.kv EXCEPT ![KeyIndex(o, k)] = [k |-> k, v |-> v]])
    ELSE Obj(Append(o.kv, [k |-> k, v |-> v]))
\* delete o[k]; the hole a delete leaves in an array is serialised as null
DelKey(o, k) ==
  IF ~HasKey(o, k) THEN o
  ELSE IF IsArr(o) THEN Arr([o.items EXCEPT ![ArrayIndex(k)] = Null])
  ELSE Obj(SubSeq(o.kv, 1, KeyIndex(o, k) - 1)
           \o SubSeq(o.kv, KeyIndex(o, k) + 1, Len(o.kv)))

\* JSON.stringify(v), as a sequence of tokens
RECURSIVE Stringify(_)
RECURSIVE StringifyPairs(_)
RECURSIVE StringifyItems(_)
StringifyItems(items) ==
  IF Len(items) = 0 THEN <<>>
  ELSE Stringify(items[1])
       \o (IF Len(items) > 1 THEN <<",">> ELSE <<>>) \o StringifyItems(Tail(items))
StringifyPairs(kv) ==
  IF Len(kv) = 0 THEN <<>>
  ELSE <<kv[1].k, ":">> \o Stringify(kv[1].v)
       \o (IF Len(kv) > 1 THEN <<",">> ELSE <<>>) \o StringifyPairs(Tail(kv))
Stringify(v) ==
  IF v.t = "u" THEN <<"undefined">>
  ELSE IF v.t = "n" THEN <<"null">>
  ELSE IF v.t = "s" THEN <<"str", v.s>>
  ELSE IF v.t = "a" THEN <<"[">> \o StringifyItems(v.items) \o <<"]">>
  ELSE <<"{">> \o StringifyPairs(v.kv) \o <<"}">>

\* isEqual(a, b): JSON.stringify(a) === JSON.stringify(b)
isEqual(a, b) == Stringify(a) = Stringify(b)

(***************************************************************************)
(* JSON pointers and the config mutation                                   *)
(***************************************************************************)
\* str.replace(/ab/g, r) for a two-character pattern
RECURSIVE ReplacePair(_, _, _, _)
ReplacePair(str, a, b, r) ==
  IF Len(str) = 0 THEN <<>>
  ELSE IF Len(str) >= 2 /\ str[1] = a /\ str[2] = b
    THEN <<r>> \o ReplacePair(SubSeq(str, 3, Len(str)), a, b, r)
  ELSE <<str[1]>> \o ReplacePair(Tail(str), a, b, r)

decodePointer(pointer) ==
  IF pointer = <<>> \/ pointer = <<"/">> THEN <<>>
  ELSE LET parts == Tail(Split(pointer, "/"))
       IN [i \in 1..Len(parts) |->
             ReplacePair(ReplacePair(parts[i], "~", "1", "/"), "~", "0", "~")]

\* the value reached from doc through segs, Undef when the walk leaves the objects
\* and arrays
RECURSIVE GetAt(_, _)
GetAt(doc, segs) ==
  IF Len(segs) = 0 THEN doc
  ELSE IF ~IsObject(doc) THEN Undef
  ELSE GetAt(GetKey(doc, segs[1]), Tail(segs))

\* doc with the value at segs replaced by v; every proper prefix is an object
RECURSIVE PutAt(_, _, _)
PutAt(doc, segs, v) ==
  IF Len(segs) = 0 THEN v
  ELSE PutKey(doc, segs[1], PutAt(GetKey(doc, segs[1]), Tail(segs), v))

\* doc with the key at segs deleted; every proper prefix is an object
RECURSIVE DelAt(_, _)
DelAt(doc, segs) ==
  IF Len(segs) = 1 THEN DelKey(doc, segs[1])
  ELSE PutKey(doc, segs[1], DelAt(GetKey(doc, segs[1]), Tail(segs)))

\* getParent with createPath = false: the walk to the parent succeeds
RECURSIVE ParentReachable(_, _)
ParentReachable(doc, segs) ==
  IF Len(segs) <= 1 THEN Len(segs) = 1
  ELSE IsObject(GetKey(doc, segs[1])) /\ ParentReachable(GetKey(doc, segs[1]), Tail(segs))

\* getParent with createPath = true: the document after the walk, in which
\* every missing or non-object intermediate value has become {}
RECURSIVE CreateParents(_, _)
CreateParents(doc, segs) ==
  IF Len(segs) <= 1 THEN doc
  ELSE LET child == IF IsObject(GetKey(doc, segs[1])) THEN GetKey(doc, segs[1]) ELSE EmptyObj
       IN PutKey(doc, segs[1], CreateParents(child, Tail(segs)))

\* { ...target, ...source }
RECURSIVE Spread(_, _)
Spread(target, skv) ==
  IF Len(skv) = 0 THEN target
  ELSE Spread(PutKey(target, skv[1].k, skv[1].v), Tail(skv))

RECURSIVE deepMerge(_, _)
RECURSIVE deepMergePairs(_, _)
deepMergePairs(result, skv) ==
  IF Len(skv) = 0 THEN result
  ELSE LET key == skv[1].k
           value == skv[1].v
       IN deepMergePairs(
            IF IsObj(value) /\ IsObj(GetKey(result, key))
              THEN PutKey(result, key, deepMerge(GetKey(result, key), value))
              ELSE PutKey(result, key, value),
            Tail(skv))
deepMerge(target, source) == deepMergePairs(target, source.kv)

\* a document that is null or a (non-empty) string, not an object or an array,
\* makes applyConfigMutation throw a TypeError: getParent reads parent[segment]
\* of null, or assigns parent[segment] = {} to a string; with one segment the
\* parent is the document, null is taken as no parent, `key in parent` throws
\* on a string and so does the assignment parent[key] = value
RootThrows(document, operation, segments) ==
  /\ ~IsObject(document) /\ Len(segments) >= 1
  /\ IF Len(segments) = 1 THEN document # Null
     ELSE document = Null \/ operation.action # "unset"

\* applyConfigMutation: [changed, document], or it throws
applyConfigMutation(document, operation) ==
  LET segments == decodePointer(operation.pointer)
      key == Last(segments)
      unchanged == [changed |-> FALSE, document |-> document, throws |-> FALSE]
  IN IF RootThrows(document, operation, segments)
       THEN [changed |-> FALSE, document |-> document, throws |-> TRUE]
     ELSE IF ~IsObject(document) THEN unchanged
     ELSE IF operation.action = "unset"
       THEN IF Len(segments) = 0 \/ ~ParentReachable(document, segments)
                 \/ key = <<>> \/ GetAt(document, segments) = Undef
              THEN unchanged
              ELSE [changed |-> TRUE, document |-> DelAt(document, segments),
                    throws |-> FALSE]
     ELSE IF Len(segments) = 0 \/ key = <<>> THEN unchanged
     ELSE LET created == CreateParents(document, segments)
              existing == GetAt(created, segments)
              merged == IF operation.strategy = "shallow"
                          THEN Spread(existing, operation.value.kv)
                          ELSE deepMerge(existing, operation.value)
          IN IF operation.action = "merge" /\ IsObj(existing) /\ IsObj(operation.value)
               THEN IF isEqual(existing, merged)
                      THEN [changed |-> FALSE, document |-> created, throws |-> FALSE]
                      ELSE [changed |-> TRUE, document |-> PutAt(created, segments, merged),
                            throws |-> FALSE]
             ELSE IF isEqual(existing, operation.value)
               THEN [changed |-> FALSE, document |-> created, throws |-> FALSE]
               ELSE [changed |-> TRUE,
                     document |-> PutAt(created, segments, operation.value),
                     throws |-> FALSE]

(***************************************************************************)
(* Files.  The bytes of a file are either text that is no JSON (raw) or    *)
(* the text of a JSON document; canon tells whether the text is exactly    *)
(* what JSON.stringify(doc, null, 2) + "\n" prints.                        *)
(***************************************************************************)
Absent == [t |-> "absent"]
Raw(s) == [t |-> "raw", s |-> s]
Json(doc, canon) == [t |-> "json", doc |-> doc, canon |-> canon]
Exists(bytes) == bytes.t # "absent"
\* JSON.parse throws a SyntaxError
ParseFails(bytes) == bytes.t = "raw"
\* JSON.parse(text)
Parse(bytes) == bytes.doc
\* `${JSON.stringify(doc, null, 2)}\n`
Pretty(doc) == Json(doc, TRUE)

(***************************************************************************)
(* Operations                                                              *)
(***************************************************************************)
NoString == <<>>

FileOp(action, path, content, mode) ==
  [kind |-> "file", action |-> action, path |-> path, content |-> content,
   mode |-> mode, pointer |-> NoString, value |-> Undef, strategy |-> "deep",
   name |-> NoString, command |-> Undef, conflictResolution |-> "prompt",
   template |-> NoString, checksum |-> Undef]
ConfigOp(action, path, pointer, value, strategy) ==
  [kind |-> "config", action |-> action, path |-> path, content |-> Undef,
   mode |-> "none", pointer |-> pointer, value |-> value, strategy |-> strategy,
   name |-> NoString, command |-> Undef, conflictResolution |-> "prompt",
   template |-> NoString, checksum |-> Undef]
\* the manifest of a script operation (its field file) is kept in path
ScriptOp(action, file, name, command, conflictResolution) ==
  [kind |-> "script", action |-> action, path |-> file, content |-> Undef,
   mode |-> "none", pointer |-> NoString, value |-> Undef, strategy |-> "deep",
   name |-> name, command |-> command, conflictResolution |-> conflictResolution,
   template |-> NoString, checksum |-> Undef]
CodeOp(file) ==
  [kind |-> "code", action |-> "patch", path |-> file, content |-> Undef,
   mode |-> "none", pointer |-> NoString, value |-> Undef, strategy |-> "deep",
   name |-> NoString, command |-> Undef, conflictResolution |-> "prompt",
   template |-> NoString, checksum |-> Undef]

\* a file operation without inline content whose template is read from source
TemplateOp(action, path, source) ==
  [FileOp(action, path, Undef, "none") EXCEPT !.template = source]

\* createHash('sha256').update(buffer).digest('hex'): a digest that tells any
\* two byte strings apart
sha256(bytes) == [sha256 |-> bytes]

\* a file operation that carries a checksum, with inline content or without
ChecksumOp(action, path, content, checksum) ==
  [FileOp(action, path, content, "none") EXCEPT !.checksum = checksum]

\* operation paths: a text file, a JSON manifest, and a path that leaves /w
PathA == <<"a">>
PathP == <<"p">>
PathOut == <<"..", "/", "x">>

\* file modes: none given, one chmod accepts, one chmod throws on
\* (a number outside 0..2^32-1, or a file the process does not own)
Modes == {"none", "ok", "bad"}

ScriptsS == <<"/", "scripts", "/", "s">>
ScriptsPtr == <<"/", "scripts">>
ObjS(c) == Obj(<< [k |-> <<"s">>, v |-> Str(<<c>>)] >>)
DocS(c) == Obj(<< [k |-> <<"scripts">>, v |-> ObjS(c)] >>)
DocST == Obj(<< [k |-> <<"scripts">>,
                 v |-> Obj(<< [k |-> <<"s">>, v |-> Str(<<"c1">>)],
                              [k |-> <<"t">>, v |-> Str(<<"c2">>)] >>)] >>)
\* a document holding an array, and the pointer to the array's first element
DocL == Obj(<< [k |-> <<"l">>, v |-> Arr(<< Str(<<"c1">>) >>)] >>)
ListFirst == <<"/", "l", "/", "0">>

\* the operations plans are built from
Catalog ==
  { FileOp("ensure", PathA, Str(<<"A">>), "none"),
    FileOp("update", PathA, Str(<<"B">>), "none"),
    FileOp("update", PathA, Str(<<"B">>), "bad"),
    FileOp("delete", PathA, Undef, "none"),
    FileOp("ensure", PathOut, Str(<<"A">>), "none"),
    ConfigOp("merge", PathP, ScriptsPtr, ObjS("c1"), "deep"),
    ConfigOp("set", PathP, ScriptsS, Str(<<"c2">>), "deep"),
    ConfigOp("unset", PathP, ScriptsS, Undef, "deep"),
    ConfigOp("unset", PathP, ListFirst, Undef, "deep"),
    ConfigOp("set", PathOut, ScriptsS, Str(<<"c2">>), "deep"),
    ScriptOp("ensure", PathP, <<"s">>, Str(<<"c1">>), "prompt"),
    ScriptOp("delete", PathP, <<"s">>, Undef, "prompt"),
    ScriptOp("ensure", PathOut, <<"s">>, Str(<<"c1">>), "prompt"),
    CodeOp(PathA) }

\* operation ids: two that differ only in a character sanitisation replaces
Ids == { <<"i", "/">>, <<"i", "_">>, <<"j">> }

WithMetadata == [metadata : [id : Ids], operation : Catalog]

\* the files the model tracks, by resolved path: /w/a, /w/p and /x
FileA == pathResolve(workspaceRoot, PathA)
FileP == pathResolve(workspaceRoot, PathP)
FileOut == pathResolve(workspaceRoot, PathOut)
Files == {FileA, FileP, FileOut}

InitialFs ==
  { f \in [Files -> {Absent, Raw(<<"A">>), Json(DocST, FALSE), Json(DocS("c2"), TRUE),
                      Json(DocL, TRUE)}] :
      /\ f[FileA] \in {Absent, Raw(<<"A">>)}
      /\ f[FileP] \in {Absent, Json(DocST, FALSE), Json(DocS("c2"), TRUE), Json(DocL, TRUE)}
      /\ f[FileOut] = Raw(<<"A">>) }

RECURSIVE Flatten(_)
Flatten(stages) ==
  IF Len(stages) = 0 THEN <<>> ELSE stages[1] \o Flatten(Tail(stages))

UniqueIds(ops) ==
  \A i, j \in 1..Len(ops) : i # j => ops[i].metadata.id # ops[j].metadata.id

\* operations for the longer plans: two that change one file, and one of a
\* kind without a built-in executor
LongCatalog ==
  { FileOp("ensure", PathA, Str(<<"A">>), "none"),
    FileOp("update", PathA, Str(<<"B">>), "none"),
    CodeOp(PathA) }

\* single-stage plans one operation longer than MaxOps, over LongCatalog
LongPlans ==
  { <<ops>> : ops \in { l \in [1..(MaxOps + 1) -> [metadata : [id : Ids],
                                                   operation : LongCatalog]] :
                         UniqueIds(l) } }

\* plans: one stage holding all operations, or one stage per operation
Plans ==
  LET lists == { ops \in UNION { [1..n -> WithMetadata] : n \in 1..MaxOps } : UniqueIds(ops) }
  IN { <<ops>> : ops \in lists }
     \cup { [i \in 1..Len(ops) |-> <<ops[i]>>] : ops \in lists }
     \cup LongPlans

(***************************************************************************)
(* The appliers.  Each computes, from the operation and the disk, what the *)
(* applier does: throw, report changed = false, or back up and then write  *)
(* or remove the target.                                                   *)
(***************************************************************************)
Target(operation) == pathResolve(workspaceRoot, operation.path)

Throws == [outcome |-> "throw", bytes |-> Absent, created |-> FALSE]
Unchanged == [outcome |-> "unchanged", bytes |-> Absent, created |-> FALSE]
Writes(bytes, created) == [outcome |-> "write", bytes |-> bytes, created |-> created]

\* renderTemplate: the bytes of the template file, read at the source path
\* resolved against the workspace root; a missing file makes readFile throw
renderTemplate(source, disk) ==
  LET templatePath == pathResolve(workspaceRoot, source)
  IN IF templatePath \in DOMAIN disk /\ Exists(disk[templatePath])
       THEN [throws |-> FALSE, bytes |-> disk[templatePath]]
       ELSE [throws |-> TRUE, bytes |-> Absent]

\* resolveFileContent: inline content, else (no annotation) the rendered
\* template, else an error
resolveFileContent(operation, disk) ==
  IF operation.content # Undef
    THEN [throws |-> FALSE, bytes |-> Raw(operation.content.s)]
  ELSE IF operation.template # NoString
    THEN renderTemplate(operation.template, disk)
  ELSE [throws |-> TRUE, bytes |-> Absent]

\* a file applier that reports every operation unchanged
applyFileOperationKeeps(operation, disk) == Unchanged
applyFileOperation(operation, disk) ==
  IF ~InsideWorkspace(workspaceRoot, operation.path) THEN Throws
  ELSE LET current == disk[Target(operation)]
           exists == Exists(current)
           next == resolveFileContent(operation, disk)
       IN IF operation.action = "delete"
            THEN IF ~exists THEN Unchanged
                 ELSE [outcome |-> "remove", bytes |-> Absent, created |-> TRUE]
          ELSE IF next.throws THEN Throws
          ELSE IF exists /\ current = next.bytes THEN Unchanged
          ELSE Writes(next.bytes, ~exists)

applyConfigOperation(operation, disk) ==
  IF ~InsideWorkspace(workspaceRoot, operation.path) THEN Throws
  ELSE LET current == disk[Target(operation)]
           exists == Exists(current)
           document == IF exists THEN Parse(current) ELSE EmptyObj
           updated == applyConfigMutation(document, operation)
       IN IF exists /\ ParseFails(current) THEN Throws
          ELSE IF updated.throws THEN Throws
          ELSE IF ~updated.changed THEN Unchanged
          ELSE Writes(Pretty(updated.document), ~exists)

\* a script applier that overwrites a differing entry whatever the resolution
applyScriptOperationReplaces(operation, disk, autoConfirm) ==
  IF ~InsideWorkspace(workspaceRoot, operation.path) THEN Throws
  ELSE LET current == disk[Target(operation)]
           exists == Exists(current)
           parsed == IF exists THEN Parse(current) ELSE EmptyObj
           pkg == IF GetKey(parsed, <<"scripts">>) \in {Undef, Null}
                    THEN PutKey(parsed, <<"scripts">>, EmptyObj) ELSE parsed
           scripts == GetKey(pkg, <<"scripts">>)
           nextCommand == IF operation.command = Undef THEN Str(<<>>) ELSE operation.command
       IN IF exists /\ ParseFails(current) THEN Throws
          ELSE IF operation.action = "delete"
            THEN IF GetKey(scripts, operation.name) = Undef THEN Unchanged
                 ELSE Writes(Pretty(PutKey(pkg, <<"scripts">>, DelKey(scripts, operation.name))),
                             ~exists)
          ELSE Writes(Pretty(PutKey(pkg, <<"scripts">>,
                                    PutKey(scripts, operation.name, nextCommand))),
                      ~exists)
\* applyScriptOperation; conflictResolution "none" is an operation that gives none
applyScriptOperation(operation, disk, autoConfirm) ==
  IF ~InsideWorkspace(workspaceRoot, operation.path) THEN Throws
  ELSE LET current == disk[Target(operation)]
           exists == Exists(current)
           parsed == IF exists THEN Parse(current) ELSE EmptyObj
           \* pkg.scripts = pkg.scripts ?? {}
           pkg == IF GetKey(parsed, <<"scripts">>) \in {Undef, Null}
                    THEN PutKey(parsed, <<"scripts">>, EmptyObj) ELSE parsed
           scripts == GetKey(pkg, <<"scripts">>)
           entry == GetKey(scripts, operation.name)
           nextCommand == IF operation.command = Undef THEN Str(<<>>) ELSE operation.command
           conflict == entry # Undef /\ entry # nextCommand
           \* operation.conflictResolution ?? 'prompt'
           resolution == IF operation.conflictResolution = "none" THEN "prompt"
                         ELSE operation.conflictResolution
       IN IF exists /\ ParseFails(current) THEN Throws
          ELSE IF operation.action = "delete"
            THEN IF entry = Undef THEN Unchanged
                 ELSE Writes(Pretty(PutKey(pkg, <<"scripts">>, DelKey(scripts, operation.name))),
                             ~exists)
          ELSE IF conflict /\ resolution = "keep" THEN Unchanged
          ELSE IF conflict /\ resolution = "prompt" /\ ~autoConfirm
            THEN Throws
          ELSE Writes(Pretty(PutKey(pkg, <<"scripts">>,
                                    PutKey(scripts, operation.name, nextCommand))),
                      ~exists)

\* applyOperation without a registry: the built-in appliers, any other kind throws
applyOperation(operation, disk, autoConfirm) ==
  CASE operation.kind = "file" -> applyFileOperation(operation, disk)
    [] operation.kind = "config" -> applyConfigOperation(operation, disk)
    [] operation.kind = "script" -> applyScriptOperation(operation, disk, autoConfirm)
    [] OTHER -> Throws

\* simulateOperation throws: a file operation without content, or an unknown kind
simulateThrows(operation, disk) ==
  CASE operation.kind = "file" -> resolveFileContent(operation, disk).throws
    [] operation.kind \in {"config", "script"} -> FALSE
    [] OTHER -> TRUE

NoBackup == <<>>

\* the backup file's name in backupDir:
\* `${Date.now()}-${sanitize(opId)}-${sanitize(relative path)}` + ".bak"
backupFileName(time, opId, targetPath) ==
  <<time, "-">> \o sanitizeForFilename(opId) \o <<"-">>
  \o sanitizeForFilename(pathRelative(workspaceRoot, targetPath)) \o <<".", "bak">>

\* `${Date.now()}-setup-log.json`
logFileName(time) == <<time, "-", "setup-log", ".", "json">>

\* a log path the journal was created with (options.logPath): no name that
\* persistJournal generates
PresetLog == <<-1, "-", "custom-log", ".", "json">>

\* rollbackMutations: the disk after the mutation log has been undone, last first
RECURSIVE rollbackMutations(_, _, _)
rollbackMutations(disk, log, backups) ==
  IF Len(log) = 0 THEN disk
  ELSE LET mutation == Last(log)
           undone ==
             IF mutation.backupPath # NoBackup
               THEN [disk EXCEPT ![mutation.targetPath] = backups[mutation.backupPath]]
             ELSE IF ~mutation.existedBefore
               THEN [disk EXCEPT ![mutation.targetPath] = Absent]
             ELSE disk
       IN rollbackMutations(undone, Front(log), backups)

\* captureSnapshot: the journal reads the operation's path, resolved but unchecked
captureSnapshot(operation, disk) ==
  IF operation.kind \in {"file", "config", "script"}
    THEN disk[Target(operation)] ELSE Absent

(***************************************************************************)
(* The planner's staging: buildStages.  An operation list is a sequence of *)
(* [id, dependencies]; a stage is the sequence of the ids it holds.        *)
(***************************************************************************)
MaxPlanOps == 3
MaxDeps == 2

\* the ids operations carry, by position, and an id no operation carries
PlanIds == <<"o1", "o2", "o3", "o4", "o5">>
PlanIdSet == { PlanIds[i] : i \in 1..MaxPlanOps }
MissingId == "missing"

IdsOf(operations) == { operations[i].id : i \in 1..Len(operations) }
\* idToOperation.get(id)
OperationOf(operations, id) ==
  operations[CHOOSE i \in 1..Len(operations) : operations[i].id = id]

\* set.add(id) on a Set that iterates in insertion order
SetAdd(members, id) ==
  IF \E i \in 1..Len(members) : members[i] = id THEN members ELSE Append(members, id)

\* the loop over one operation's dependencies: warnings, indegree and graph
RECURSIVE RecordDependencies(_, _, _, _)
RecordDependencies(acc, present, id, deps) ==
  IF Len(deps) = 0 THEN acc
  ELSE LET dep == deps[1]
       IN IF dep \notin present
            THEN RecordDependencies(
                   [acc EXCEPT !.warnings = Append(@, [kind |-> "missing", op |-> id, dep |-> dep])],
                   present, id, Tail(deps))
            ELSE RecordDependencies(
                   [acc EXCEPT !.indegree[id] = @ + 1,
                               !.graph[dep] = SetAdd(@, id)],
                   present, id, Tail(deps))

RECURSIVE RecordAll(_, _, _)
RecordAll(acc, operations, i) ==
  IF i > Len(operations) THEN acc
  ELSE RecordAll(
         RecordDependencies(acc, IdsOf(operations), operations[i].id,
                            operations[i].dependencies),
         operations, i + 1)

\* the ids of indegree 0, in the Map's insertion order (the operations' order)
RECURSIVE InitialQueue(_, _, _)
InitialQueue(indegree, operations, i) ==
  IF i > Len(operations) THEN <<>>
  ELSE (IF indegree[operations[i].id] = 0 THEN <<operations[i].id>> ELSE <<>>)
       \o InitialQueue(indegree, operations, i + 1)

\* the loop over graph.get(id): each neighbour's indegree drops by one and a
\* neighbour that reaches 0 joins the queue
RECURSIVE Release(_, _)
Release(st, neighbours) ==
  IF Len(neighbours) = 0 THEN st
  ELSE LET n == neighbours[1]
           next == st.indegree[n] - 1
       IN Release(
            [st EXCEPT !.indegree[n] = next,
                       !.queue = IF next = 0 THEN Append(@, n) ELSE @],
            Tail(neighbours))

\* one round: levelSize heads of the queue are shifted and processed
RECURSIVE Level(_, _)
Level(st, remaining) ==
  IF remaining = 0 THEN st
  ELSE LET id == st.queue[1]
           shifted == [st EXCEPT !.queue = Tail(@)]
       IN IF id \in st.processed
            THEN Level(shifted, remaining - 1)
            ELSE Level(
                   Release([shifted EXCEPT !.stage = Append(@, id),
                                           !.processed = @ \cup {id}],
                           st.graph[id]),
                   remaining - 1)

\* while (queue.length > 0)
RECURSIVE Rounds(_)
Rounds(st) ==
  IF Len(st.queue) = 0 THEN st
  ELSE LET done == Level([st EXCEPT !.stage = <<>>], Len(st.queue))
       IN Rounds([done EXCEPT !.stages =
                    IF Len(done.stage) > 0 THEN Append(@, done.stage) ELSE @])

\* a fallback that stages none of the operations the rounds left unprocessed
RemainingNone(operations, processed, i) == <<>>
\* the operations left unprocessed, each as a stage of its own, in declared order
RECURSIVE Remaining(_, _, _)
Remaining(operations, processed, i) ==
  IF i > Len(operations) THEN <<>>
  ELSE (IF operations[i].id \in processed THEN <<>> ELSE << <<operations[i].id>> >>)
       \o Remaining(operations, processed, i + 1)

\* a staging that puts every operation into one stage and warns of nothing
buildStagesFlat(operations) ==
  [stages |-> << [i \in 1..Len(operations) |-> operations[i].id] >>, warnings |-> <<>>]
\* buildStages(operations, warnings): [stages, warnings]
buildStages(operations) ==
  LET ids == IdsOf(operations)
      recorded == RecordAll([indegree |-> [id \in ids |-> 0],
                             graph |-> [id \in ids |-> <<>>],
                             warnings |-> <<>>],
                            operations, 1)
      kahn == Rounds([indegree |-> recorded.indegree,
                      graph |-> recorded.graph,
                      queue |-> InitialQueue(recorded.indegree, operations, 1),
                      processed |-> {},
                      stage |-> <<>>,
                      stages |-> <<>>])
      cyclic == Cardinality(kahn.processed) # Len(operations)
      staged == IF cyclic
                  THEN kahn.stages \o Remaining(operations, kahn.processed, 1)
                  ELSE kahn.stages
  IN [stages |-> IF Len(staged) = 0
                   THEN << [i \in 1..Len(operations) |-> operations[i].id] >>
                   ELSE staged,
      warnings |-> IF cyclic
                     THEN Append(recorded.warnings, [kind |-> "cycle", op |-> "", dep |-> ""])
                     ELSE recorded.warnings]

\* no analysis result for the operation: analysis.get(id) is undefined
NoAnalysis == [t |-> "u"]
Analysis(needed, current, risk) ==
  [t |-> "analysis", needed |-> needed, current |-> current, risk |-> risk]

\* RISK_WEIGHT
RISK_WEIGHT(risk) == CASE risk = "safe" -> 0 [] risk = "moderate" -> 1 [] risk = "high" -> 2

\* the loop of buildRiskAssessment from operation i on
RECURSIVE RiskLoop(_, _, _, _)
RiskLoop(acc, operations, results, i) ==
  IF i > Len(operations) THEN acc
  ELSE LET id == operations[i].id
           risk == IF results[id] = NoAnalysis THEN "moderate" ELSE results[id].risk
           byOperation == [k \in DOMAIN acc.byOperation \cup {id} |->
                             IF k = id THEN risk ELSE acc.byOperation[k]]
       IN RiskLoop([overall |-> IF RISK_WEIGHT(risk) > RISK_WEIGHT(acc.overall)
                                  THEN risk ELSE acc.overall,
                    byOperation |-> byOperation],
                   operations, results, i + 1)

\* a risk assessment whose overall risk is the risk of the first operation
buildRiskAssessmentFirst(operations, results) ==
  LET assessed == RiskLoop([overall |-> "safe", byOperation |-> [id \in {} |-> "safe"]],
                           operations, results, 1)
  IN [assessed EXCEPT !.overall =
        IF Len(operations) = 0 THEN "safe" ELSE assessed.byOperation[operations[1].id]]
\* buildRiskAssessment(operations, analysis): [overall, byOperation]
buildRiskAssessment(operations, results) ==
  RiskLoop([overall |-> "safe", byOperation |-> [id \in {} |-> "safe"]],
           operations, results, 1)

\* the dependency lists an operation may declare
DependencyLists ==
  UNION { [1..n -> {PlanIds[i] : i \in 1..MaxPlanOps} \cup {MissingId}] : n \in 0..MaxDeps }

\* operation lists with pairwise distinct ids
OperationLists ==
  UNION { { [i \in 1..n |-> [id |-> PlanIds[i], dependencies |-> d[i]]] :
              d \in [1..n -> DependencyLists] } : n \in 0..MaxPlanOps }

(***************************************************************************)
(* The file analyzer and the planner's file diff                           *)
(***************************************************************************)
\* current of a file analysis: { exists, content? }
FileSnapshot(exists, content) == [exists |-> exists, content |-> content]

\* FileAnalyzer.analyze: stat and read the path resolved against cwd
FileAnalyzerAnalyze(op, disk) ==
  LET absolutePath == pathResolve(workspaceRoot, op.path)
      bytes == disk[absolutePath]
      current == FileSnapshot(TRUE, bytes)
  IN IF ~Exists(bytes)
       THEN Analysis(op.action # "delete", FileSnapshot(FALSE, Undef), "safe")
     ELSE IF op.action = "delete" THEN Analysis(TRUE, current, "moderate")
     \* no file mode of the model equals a mode an operation gives
     ELSE IF op.content # Undef /\ bytes = Raw(op.content.s) /\ op.mode = "none"
       THEN Analysis(FALSE, current, "safe")
     \* else if (operation.checksum): only when the operation has no content
     ELSE IF op.content = Undef /\ op.checksum # Undef /\ sha256(bytes) = op.checksum.s
       THEN Analysis(FALSE, current, "safe")
     ELSE Analysis(TRUE, current, "moderate")

\* util.isDeepStrictEqual on JSON values: objects by their key sets and their
\* values whatever the order of the keys, arrays item by item
RECURSIVE isDeepStrictEqual(_, _)
isDeepStrictEqual(a, b) ==
  IF a.t # b.t THEN FALSE
  ELSE IF IsObj(a)
    THEN /\ { a.kv[i].k : i \in 1..Len(a.kv) } = { b.kv[i].k : i \in 1..Len(b.kv) }
         /\ \A i \in 1..Len(a.kv) : isDeepStrictEqual(a.kv[i].v, GetKey(b, a.kv[i].k))
  ELSE IF IsArr(a)
    THEN /\ Len(a.items) = Len(b.items)
         /\ \A i \in 1..Len(a.items) : isDeepStrictEqual(a.items[i], b.items[i])
  ELSE a = b

\* getPointerValue of the config analyzer
getPointerValue(target, pointer) == GetAt(target, decodePointer(pointer))

\* isDeepSubset(target, subset)
RECURSIVE isDeepSubset(_, _)
isDeepSubset(target, subset) ==
  IF subset = Undef THEN TRUE
  ELSE IF target = Undef \/ target = Null THEN FALSE
  ELSE IF IsArr(subset) THEN isDeepStrictEqual(target, subset)
  ELSE IF ~IsObj(subset) THEN isDeepStrictEqual(target, subset)
  ELSE IF ~IsObject(target) THEN FALSE
  ELSE \A i \in 1..Len(subset.kv) :
         isDeepSubset(GetKey(target, subset.kv[i].k), subset.kv[i].v)

\* ConfigAnalyzer.evaluateDocument
evaluateDocument(document, operation) ==
  LET currentValue == getPointerValue(document, operation.pointer)
  IN CASE operation.action = "unset" ->
            Analysis(currentValue # Undef, currentValue,
                     IF currentValue # Undef THEN "moderate" ELSE "safe")
       [] operation.action = "set" ->
            Analysis(~isDeepStrictEqual(currentValue, operation.value), currentValue, "safe")
       [] operation.action = "merge" ->
            IF IsObj(operation.value)
              THEN Analysis(~isDeepSubset(currentValue, operation.value), currentValue, "safe")
              ELSE Analysis(~isDeepStrictEqual(currentValue, operation.value),
                            currentValue, "safe")
       [] OTHER -> Analysis(TRUE, currentValue, "safe")

\* ConfigAnalyzer.analyze: a missing file, a file that does not parse (no
\* current in the result), an empty file read as {}, a parsed document
ConfigAnalyzerAnalyze(op, files) ==
  LET bytes == files[pathResolve(workspaceRoot, op.path)]
  IN IF ~Exists(bytes) THEN Analysis(op.action # "unset", Undef, "safe")
     ELSE IF bytes = Raw(<<>>) THEN evaluateDocument(EmptyObj, op)
     ELSE IF ParseFails(bytes) THEN Analysis(TRUE, Undef, "moderate")
     ELSE evaluateDocument(Parse(bytes), op)

\* BasicAnalyzer.analyzeScript: current === operation.command
analyzeScript(op, files) ==
  LET bytes == files[pathResolve(workspaceRoot, op.path)]
  IN IF ~Exists(bytes) \/ ParseFails(bytes) THEN Analysis(TRUE, Undef, "moderate")
     ELSE LET json == Parse(bytes)
              scripts == IF GetKey(json, <<"scripts">>) \in {Undef, Null}
                           THEN EmptyObj ELSE GetKey(json, <<"scripts">>)
              current == GetKey(scripts, op.name)
          IN IF op.action = "delete"
               THEN Analysis(current # Undef, current,
                             IF current # Undef THEN "moderate" ELSE "safe")
             ELSE IF current = op.command THEN Analysis(FALSE, current, "safe")
             ELSE Analysis(TRUE, current, "moderate")

\* `{{template:${source}}}`
templatePlaceholder(source) == <<"{{template:">> \o source \o <<"}}">>

\* buildFileDiff: [path, status, preview], preview Undef or [before, after]
buildFileDiff(operation, analysisResult) ==
  LET current == IF analysisResult = NoAnalysis THEN Undef ELSE analysisResult.current
      before == IF current = Undef THEN Undef ELSE current.content
      status == IF operation.action = "delete" THEN "deleted"
                ELSE IF current # Undef /\ ~current.exists THEN "created"
                ELSE "modified"
      after == IF operation.action = "delete" THEN Undef
               ELSE IF operation.content # Undef THEN Raw(operation.content.s)
               ELSE IF operation.template # NoString
                 THEN Raw(templatePlaceholder(operation.template))
               ELSE Undef
  IN [path |-> operation.path, status |-> status,
      preview |-> IF before = Undef /\ after = Undef THEN Undef
                  ELSE [before |-> before, after |-> after]]

(***************************************************************************)
(* The executor: createExecutor(...).execute(plan, execOptions)            *)
(***************************************************************************)
VARIABLES
  plan,            \* the stages of the plan, each a sequence of operations
  opts,            \* execOptions: dryRun, autoConfirm, journal (supplied or not)
  fs,              \* the bytes of each tracked file
  bak,             \* the backup files in backupDir, by name
  logs,            \* the log files in backupDir, by name
  now,             \* Date.now()
  pc,              \* where execute is
  si, oi,          \* index of the current stage, and of the operation in it
  applied, failed, \* the lists execute returns
  mutations,       \* ctx.mutations
  backupRegistry,  \* ctx.backupRegistry
  entries,         \* the journal's entries
  logPath,         \* the journal's log path, <<>> when unset
  cur,             \* the applier in progress: its decision and its backup path
  result,          \* "none" while running, then "success", "failure" or "threw"
  run,             \* 1 for the first execute, 2 for a repeat on its result
  fs0, bak0, logs0,  \* the disk when the current execute began
  history,         \* every mutation of the run with the bytes it replaced
  registry,        \* the kinds with a registered analyzer, diff builder, executor
  used,            \* the executor handlers invoked so far, by operation
  heap,            \* the metadata objects of the plan's operations, by place
  returned,        \* what the caller holds of the last getEntries call
  trace,           \* the progress events, journal hooks and applier calls, in order
  operations,      \* the planner's input list
  analysis,        \* the planner's input map of analysis results, by operation id
  analysed,        \* the analyzer's output: [done, results by place in the list]
  pointer,         \* the JSON pointer handed to decodePointer
  decoded,         \* decodePointer's output: [done, segments]
  builder,         \* a SetupBuilder: [operations, nextIdCounter, built]
  planned          \* the planner's output: [done, stages, warnings, risks]

vars == <<plan, opts, fs, bak, logs, now, pc, si, oi, applied, failed, mutations,
          backupRegistry, entries, logPath, cur, result, run, fs0, bak0, logs0,
          history, registry, used, heap, returned, trace, operations, analysis,
          analysed,
          pointer, decoded, builder, planned>>

pointers == <<pointer, decoded>>
planner == <<operations, analysis, analysed, planned, pointers, builder>>
executor == <<plan, opts, fs, bak, logs, now, pc, si, oi, applied, failed, mutations,
              backupRegistry, entries, logPath, cur, result, run, fs0, bak0, logs0,
              history, registry, used, heap, returned, trace>>

NotAnalysed == [done |-> FALSE, results |-> <<>>]
NotDecoded == [done |-> FALSE, segments |-> <<>>]

NotPlanned == [done |-> FALSE, stages |-> <<>>, warnings |-> <<>>,
               risks |-> [overall |-> "safe", byOperation |-> [id \in {} |-> "safe"]]]

Idle == [outcome |-> "none", bytes |-> Absent, created |-> FALSE,
         backupPath |-> NoBackup, changed |-> FALSE]

Options == [dryRun : BOOLEAN, autoConfirm : BOOLEAN, journal : BOOLEAN]

\* an OperationRegistry: the kinds that have a registered analyzer, a registered
\* diff builder (diffValues: the kinds whose diff builder returns a diff rather
\* than null or undefined), a registered executor (simulators: the kinds whose
\* executor has a simulate handler besides execute)
Registry(analyzers, diffBuilders, diffValues, executors, simulators) ==
  [analyzers |-> analyzers, diffBuilders |-> diffBuilders, diffValues |-> diffValues,
   executors |-> executors, simulators |-> simulators]

\* no registry, or an empty one
NoRegistry == Registry({}, {}, {}, {}, {})

\* registry?.getAnalyzer(kind), as whether there is one
getAnalyzer(reg, kind) == kind \in reg.analyzers

\* registry?.getDiffBuilder(kind), as whether there is one and whether its
\* call returns a diff
getDiffBuilder(reg, kind) ==
  [builder |-> kind \in reg.diffBuilders,
   value |-> kind \in reg.diffBuilders /\ kind \in reg.diffValues]

getExecutorNone(reg, kind) == [execute |-> FALSE, simulate |-> FALSE]

\* ctx.registry?.getExecutor(kind), as the handlers it has
getExecutor(reg, kind) ==
  [execute |-> kind \in reg.executors,
   simulate |-> kind \in reg.executors /\ kind \in reg.simulators]

\* BasicAnalyzer.analyze: the handler that analyses the operation, and its
\* result where the model has it (the result of a registered analyzer is the
\* handler's own)
BasicAnalyzerAnalyze(reg, op, disk) ==
  LET kind == op.operation.kind
  IN IF getAnalyzer(reg, kind) THEN [handler |-> "registered"]
     ELSE IF kind = "file"
       THEN [handler |-> "fileAnalyzer", result |-> FileAnalyzerAnalyze(op.operation, disk)]
     ELSE IF kind = "config"
       THEN [handler |-> "configAnalyzer",
             result |-> ConfigAnalyzerAnalyze(op.operation, disk)]
     ELSE IF kind = "code"
       THEN [handler |-> "analyzeCode", result |-> Analysis(TRUE, Undef, "moderate")]
     ELSE IF kind = "script"
       THEN [handler |-> "analyzeScript", result |-> analyzeScript(op.operation, disk)]
     ELSE [handler |-> "default", result |-> Analysis(TRUE, Undef, "moderate")]

\* one turn of the loop of buildDiff: the handler whose diff is pushed for the
\* operation, and the diff where the model has it
buildDiff(reg, op, analysisResult) ==
  LET kind == op.operation.kind
      customBuilder == getDiffBuilder(reg, kind)
  IN IF customBuilder.value THEN [handler |-> "registered"]
     ELSE IF kind = "file"
       THEN [handler |-> "buildFileDiff",
             diff |-> buildFileDiff(op.operation, analysisResult)]
     ELSE IF kind = "config" THEN [handler |-> "buildConfigDiff"]
     ELSE [handler |-> "none"]

Invoked(op, phase, handler) ==
  [id |-> op.metadata.id, kind |-> op.operation.kind, phase |-> phase, handler |-> handler]

\* an execute call of an executor created with registry r, whose journal (when
\* execOptions has one) was created with log path l
ExecutorStartLogged(p, o, f, r, l) ==
  /\ plan = p
  /\ opts = o
  /\ fs = f
  /\ bak = << >>
  /\ logs = {}
  /\ now = 0
  /\ pc = "stage"
  /\ si = 1
  /\ oi = 1
  /\ applied = <<>>
  /\ failed = <<>>
  /\ mutations = <<>>
  /\ backupRegistry = <<>>
  /\ entries = <<>>
  /\ logPath = l
  /\ cur = Idle
  /\ result = "none"
  /\ run = 1
  /\ fs0 = fs
  /\ bak0 = bak
  /\ logs0 = logs
  /\ history = <<>>
  /\ registry = r
  /\ used = <<>>
  /\ heap = [i \in 1..Len(Flatten(p)) |-> Flatten(p)[i].metadata]
  /\ returned = <<>>
  /\ trace = <<>>

\* an execute call whose journal was created without a log path
ExecutorStartWith(p, o, f, r) == ExecutorStartLogged(p, o, f, r, <<>>)

\* an execute call of an executor created without a registry
ExecutorStart(p, o, f) == ExecutorStartWith(p, o, f, NoRegistry)

\* new SetupBuilder(): no operation, nextIdCounter = 0, build() not called
NewBuilder == [operations |-> <<>>, nextIdCounter |-> 0, built |-> -1]

\* no decodePointer call yet on the pointer ptr
PointerStart(ptr) ==
  /\ pointer = ptr
  /\ decoded = NotDecoded

PlannerStartWith(ops, results) ==
  /\ operations = ops
  /\ analysis = results
  /\ analysed = NotAnalysed
  /\ planned = NotPlanned
  /\ builder = NewBuilder
  /\ PointerStart(<<>>)

\* a plan call with an empty analysis map
PlannerStart(ops) == PlannerStartWith(ops, [id \in PlanIdSet |-> NoAnalysis])

\* an execute call on a plan, with the planner at rest
Init ==
  /\ \E p \in Plans, o \in Options, f \in InitialFs : ExecutorStart(p, o, f)
  /\ PlannerStart(<<>>)

Current == plan[si][oi]
InStage == pc = "op" /\ oi <= Len(plan[si])
Clock == { t \in now..(now + 1) : t <= MaxClock }

disk == <<fs, bak, logs>>
lists == <<applied, failed, mutations, backupRegistry>>
caller == <<heap, returned>>
inputs == <<plan, opts, run, fs0, bak0, logs0, planner, registry, caller>>

\* one call the execute loop makes, as its receiver sees it: a progress event,
\* a journal hook or the applier, with the stage and the operation it is for
Call(name, id, status, backupPath) ==
  [call |-> name, stage |-> si, id |-> id, status |-> status, backupPath |-> backupPath]

\* an emitProgress that reports every event as running
ProgressRunning(op, status) == Call("progress", op.metadata.id, "running", NoBackup)
\* emitProgress(execOptions.onProgress, stage.id, operation, status)
Progress(op, status) == Call("progress", op.metadata.id, status, NoBackup)
\* journal.beforeOperation(operation), applyOperation(operation, context),
\* journal.afterOperation(operation, {backupPath})
JournalCall(name, op, backupPath) == Call(name, op.metadata.id, "-", backupPath)
\* journal.startStage(stage.id), journal.commitStage(stage.id), journal.rollback(applied)
StageCall(name) == Call(name, <<>>, "-", NoBackup)
\* journal?.hook(...): no call without a journal
Hooks(calls) == IF opts.journal THEN calls ELSE <<>>

\* journal?.startStage(stage.id)
StartStage ==
  /\ pc = "stage" /\ si <= Len(plan)
  /\ pc' = "op" /\ oi' = 1
  /\ trace' = trace \o Hooks(<<StageCall("startStage")>>)
  /\ UNCHANGED <<disk, lists, inputs, now, si, entries, logPath, cur, result, history, used>>

\* a journal hook outside the try block throws: execute rejects
StartStageThrows ==
  /\ pc = "stage" /\ si <= Len(plan) /\ opts.journal
  /\ pc' = "done" /\ result' = "threw"
  /\ trace' = Append(trace, StageCall("startStage"))
  /\ UNCHANGED <<disk, lists, inputs, now, si, oi, entries, logPath, cur, history, used>>

\* a beforeOperation that records the after snapshot as well
NewEntryWithAfter(op) ==
  [id |-> op.metadata.id, before |-> captureSnapshot(op.operation, fs),
   after |-> captureSnapshot(op.operation, fs), finished |-> TRUE, backupPath |-> NoBackup]
NewEntry(op) ==
  [id |-> op.metadata.id, before |-> captureSnapshot(op.operation, fs),
   after |-> Absent, finished |-> FALSE, backupPath |-> NoBackup]

\* real run: emitProgress(running), journal?.beforeOperation(operation)
BeginOperation ==
  /\ InStage /\ ~opts.dryRun
  /\ entries' = IF opts.journal THEN Append(entries, NewEntry(Current)) ELSE entries
  /\ cur' = Idle
  /\ pc' = "apply"
  /\ trace' = trace \o <<Progress(Current, "running")>>
                  \o Hooks(<<JournalCall("beforeOperation", Current, NoBackup)>>)
  /\ UNCHANGED <<disk, lists, inputs, now, si, oi, logPath, result, history, used>>

\* dry run: simulateOperation (the simulate handler of a registered executor
\* when it has one, which throws or does not), beforeOperation, afterOperation,
\* emitProgress(skipped)
DryRunOperation ==
  /\ InStage /\ opts.dryRun
  /\ \E customThrows \in BOOLEAN :
       LET custom == getExecutor(registry, Current.operation.kind).simulate
           throws == IF custom THEN customThrows
                     ELSE ~customThrows /\ simulateThrows(Current.operation, fs)
       IN /\ custom \/ ~customThrows
          /\ used' = Append(used, Invoked(Current, "simulate",
                                          IF custom THEN "registered" ELSE "builtin"))
          /\ IF throws
               THEN /\ pc' = "fail" /\ UNCHANGED <<oi, entries>>
                    /\ trace' = trace \o <<Progress(Current, "pending"),
                                            JournalCall("simulateOperation", Current, NoBackup)>>
               ELSE /\ pc' = "op" /\ oi' = oi + 1
                    /\ trace' = trace \o <<Progress(Current, "pending"),
                                            JournalCall("simulateOperation", Current, NoBackup)>>
                                  \o Hooks(<<JournalCall("beforeOperation", Current, NoBackup),
                                             JournalCall("afterOperation", Current, NoBackup)>>)
                                  \o <<Progress(Current, "skipped")>>
                    /\ entries' =
                         IF opts.journal
                           THEN Append(entries,
                                  [NewEntry(Current) EXCEPT
                                     !.after = captureSnapshot(Current.operation, fs),
                                     !.finished = TRUE])
                           ELSE entries
  /\ UNCHANGED <<disk, lists, inputs, now, si, logPath, cur, result, history>>

\* journal.beforeOperation throws (inside the try block)
BeforeOperationThrows ==
  /\ InStage /\ opts.journal
  /\ opts.dryRun => ~simulateThrows(Current.operation, fs)
  /\ pc' = "fail"
  /\ trace' = trace \o <<Progress(Current, IF opts.dryRun THEN "pending" ELSE "running"),
                       JournalCall("beforeOperation", Current, NoBackup)>>
  /\ UNCHANGED <<disk, lists, inputs, now, si, oi, entries, logPath, cur, result, history, used>>

\* applyOperation up to the backup.  A registered executor of the operation's
\* kind is called instead of the built-in applier: it throws or returns
\* changed = true or false, and the files it touches are its own affair.  The
\* built-in applier throws, reports changed = false, or copies the existing
\* target to its backup file.
ApplyOperation ==
  /\ pc = "apply"
  /\ LET op == Current
         d == applyOperation(op.operation, fs, opts.autoConfirm)
         target == Target(op.operation)
     IN IF getExecutor(registry, op.operation.kind).execute
          THEN /\ used' = Append(used, Invoked(op, "execute", "registered"))
               /\ \E outcome \in {"throw", "changed", "unchanged"} :
                    IF outcome = "throw"
                      THEN pc' = "fail" /\ UNCHANGED cur
                      ELSE /\ pc' = "after"
                           /\ cur' = [Idle EXCEPT !.changed = (outcome = "changed")]
               /\ UNCHANGED <<bak, backupRegistry, now>>
          ELSE /\ used' = Append(used, Invoked(op, "execute", "builtin"))
               /\ CASE d.outcome = "throw" ->
                         /\ pc' = "fail"
                         /\ UNCHANGED <<bak, backupRegistry, now, cur>>
                    [] d.outcome = "unchanged" ->
                         /\ pc' = "after"
                         /\ UNCHANGED <<bak, backupRegistry, now, cur>>
                    [] OTHER ->
                         /\ pc' = "write"
                         /\ IF Exists(fs[target])
                              THEN \E t \in Clock :
                                     LET name == backupFileName(t, op.metadata.id, target)
                                     IN /\ now' = t
                                        /\ bak' = [n \in DOMAIN bak \cup {name} |->
                                                     IF n = name THEN fs[target] ELSE bak[n]]
                                        /\ backupRegistry' = Append(backupRegistry, name)
                                        /\ cur' = [d @@ Idle EXCEPT !.backupPath = name]
                              ELSE /\ cur' = d @@ Idle
                                   /\ UNCHANGED <<bak, backupRegistry, now>>
  /\ trace' = Append(trace, JournalCall("applyOperation", Current, NoBackup))
  /\ UNCHANGED <<fs, logs, applied, failed, mutations, inputs, si, oi, entries,
                 logPath, result, history>>

Mutation(op) ==
  [targetPath |-> Target(op.operation), backupPath |-> cur.backupPath,
   existedBefore |-> ~cur.created]

Replaced(op) ==
  [id |-> op.metadata.id, targetPath |-> Target(op.operation),
   before |-> fs[Target(op.operation)], backupPath |-> cur.backupPath]

\* the write or removal, chmod when a mode is given, then recordMutation
WriteOperation ==
  /\ pc = "write" /\ Current.operation.mode # "bad"
  /\ fs' = [fs EXCEPT ![Target(Current.operation)] = cur.bytes]
  /\ mutations' = Append(mutations, Mutation(Current))
  /\ history' = Append(history, Replaced(Current))
  /\ cur' = [cur EXCEPT !.changed = TRUE]
  /\ pc' = "after"
  /\ UNCHANGED trace
  /\ UNCHANGED <<bak, logs, applied, failed, backupRegistry, inputs, now, si, oi,
                 entries, logPath, result, used>>

\* the write succeeds and fs.chmod throws: recordMutation is not reached
ChmodThrows ==
  /\ pc = "write" /\ Current.operation.mode = "bad"
  /\ fs' = [fs EXCEPT ![Target(Current.operation)] = cur.bytes]
  /\ history' = Append(history, Replaced(Current))
  /\ pc' = "fail"
  /\ UNCHANGED trace
  /\ UNCHANGED <<bak, logs, lists, inputs, now, si, oi, entries, logPath, cur, result,
                 used>>

\* entryIndex.get(id): the last entry pushed for this id
EntryIndex(id) ==
  CHOOSE i \in 1..Len(entries) :
    /\ entries[i].id = id
    /\ \A j \in (i + 1)..Len(entries) : entries[j].id # id

\* an execute loop that pushes every operation its applier returned from
AfterOperationApplied ==
  /\ pc = "after"
  /\ applied' = Append(applied, Current)
  /\ entries' =
       IF opts.journal
         THEN [entries EXCEPT ![EntryIndex(Current.metadata.id)] =
                 [@ EXCEPT !.after = captureSnapshot(Current.operation, fs),
                           !.finished = TRUE,
                           !.backupPath = cur.backupPath]]
         ELSE entries
  /\ oi' = oi + 1
  /\ pc' = "op"
  /\ cur' = Idle
  /\ trace' = trace \o Hooks(<<JournalCall("afterOperation", Current, cur.backupPath)>>)
                  \o <<Progress(Current, "completed")>>
  /\ UNCHANGED <<disk, failed, mutations, backupRegistry, inputs, now, si, logPath,
                 result, history, used>>

\* applied.push when changed, journal?.afterOperation(operation, {backupPath}),
\* emitProgress(completed)
AfterOperation ==
  /\ pc = "after"
  /\ applied' = IF cur.changed THEN Append(applied, Current) ELSE applied
  /\ entries' =
       IF opts.journal
         THEN [entries EXCEPT ![EntryIndex(Current.metadata.id)] =
                 [@ EXCEPT !.after = captureSnapshot(Current.operation, fs),
                           !.finished = TRUE,
                           !.backupPath = cur.backupPath]]
         ELSE entries
  /\ oi' = oi + 1
  /\ pc' = "op"
  /\ cur' = Idle
  /\ trace' = trace \o Hooks(<<JournalCall("afterOperation", Current, cur.backupPath)>>)
                  \o <<Progress(Current, "completed")>>
  /\ UNCHANGED <<disk, failed, mutations, backupRegistry, inputs, now, si, logPath,
                 result, history, used>>

\* journal.afterOperation throws (inside the try block)
AfterOperationThrows ==
  /\ pc = "after" /\ opts.journal
  /\ applied' = IF cur.changed THEN Append(applied, Current) ELSE applied
  /\ pc' = "fail"
  /\ trace' = Append(trace, JournalCall("afterOperation", Current, cur.backupPath))
  /\ UNCHANGED <<disk, failed, mutations, backupRegistry, inputs, now, si, oi,
                 entries, logPath, cur, result, history, used>>

\* journal?.commitStage(stage.id)
CommitStage ==
  /\ pc = "op" /\ oi > Len(plan[si])
  /\ si' = si + 1
  /\ pc' = "stage"
  /\ trace' = trace \o Hooks(<<StageCall("commitStage")>>)
  /\ UNCHANGED <<disk, lists, inputs, now, oi, entries, logPath, cur, result, history, used>>

CommitStageThrows ==
  /\ pc = "op" /\ oi > Len(plan[si]) /\ opts.journal
  /\ pc' = "done" /\ result' = "threw"
  /\ trace' = Append(trace, StageCall("commitStage"))
  /\ UNCHANGED <<disk, lists, inputs, now, si, oi, entries, logPath, cur, history, used>>

\* a catch block that records the failure and goes on with the next operation
FailOperationContinues ==
  /\ pc = "fail"
  /\ failed' = Append(failed, Current)
  /\ trace' = Append(trace, Progress(Current, "failed"))
  /\ pc' = "op"
  /\ oi' = oi + 1
  /\ UNCHANGED <<disk, applied, mutations, backupRegistry, inputs, now, si,
                 entries, logPath, cur, result, history, used>>

\* the catch block: failed.push, emitProgress(failed), and in a real run
\* rollbackMutations and journal?.rollback(applied); return success = false
FailOperation ==
  /\ pc = "fail"
  /\ failed' = Append(failed, Current)
  /\ fs' = IF opts.dryRun THEN fs ELSE rollbackMutations(fs, mutations, bak)
  /\ pc' = "done"
  /\ result' = "failure"
  /\ trace' = trace \o <<Progress(Current, "failed")>>
                  \o (IF opts.dryRun THEN <<>> ELSE Hooks(<<StageCall("rollback")>>))
  /\ UNCHANGED <<bak, logs, applied, mutations, backupRegistry, inputs, now, si, oi,
                 entries, logPath, cur, history, used>>

\* journal.rollback throws inside the catch block: execute rejects
RollbackHookThrows ==
  /\ pc = "fail" /\ ~opts.dryRun /\ opts.journal
  /\ failed' = Append(failed, Current)
  /\ fs' = rollbackMutations(fs, mutations, bak)
  /\ pc' = "done"
  /\ result' = "threw"
  /\ trace' = trace \o <<Progress(Current, "failed"), StageCall("rollback")>>
  /\ UNCHANGED <<bak, logs, applied, mutations, backupRegistry, inputs, now, si, oi,
                 entries, logPath, cur, history, used>>

\* after the last stage: persistJournal when a journal was supplied, then return
Finish ==
  /\ pc = "stage" /\ si > Len(plan)
  /\ IF opts.journal /\ Len(entries) > 0
       THEN IF logPath = <<>>
              THEN \E t \in Clock :
                     /\ now' = t
                     /\ logs' = logs \cup {logFileName(t)}
                     /\ logPath' = logFileName(t)
              ELSE /\ logs' = logs \cup {logPath}
                   /\ UNCHANGED <<now, logPath>>
       ELSE UNCHANGED <<now, logs, logPath>>
  /\ pc' = "done"
  /\ result' = "success"
  /\ UNCHANGED trace
  /\ UNCHANGED <<fs, bak, lists, inputs, si, oi, entries, cur, history, used>>

\* persistJournal throws (mkdir or writeFile fails): execute rejects
PersistThrows ==
  /\ pc = "stage" /\ si > Len(plan)
  /\ opts.journal /\ Len(entries) > 0
  /\ pc' = "done" /\ result' = "threw"
  /\ UNCHANGED trace
  /\ UNCHANGED <<disk, lists, inputs, now, si, oi, entries, logPath, cur, history, used>>

\* the same plan is executed again, by a new execute call with a new journal,
\* on the workspace a successful real run left
Rerun ==
  /\ pc = "done" /\ run = 1 /\ result = "success" /\ ~opts.dryRun
  /\ run' = 2
  /\ fs0' = fs /\ bak0' = bak /\ logs0' = logs
  /\ pc' = "stage" /\ si' = 1 /\ oi' = 1
  /\ applied' = <<>> /\ failed' = <<>> /\ mutations' = <<>> /\ backupRegistry' = <<>>
  /\ entries' = <<>> /\ cur' = Idle /\ result' = "none"
  /\ logPath' = IF logPath = PresetLog THEN PresetLog ELSE <<>>
  /\ history' = <<>> /\ used' = <<>>
  /\ trace' = <<>>
  /\ UNCHANGED <<disk, plan, opts, now, planner, registry, caller>>

Next ==
  \/ StartStage \/ StartStageThrows
  \/ BeginOperation \/ DryRunOperation \/ BeforeOperationThrows
  \/ ApplyOperation \/ WriteOperation \/ ChmodThrows
  \/ AfterOperation \/ AfterOperationThrows
  \/ CommitStage \/ CommitStageThrows
  \/ FailOperation \/ RollbackHookThrows
  \/ Finish \/ PersistThrows
  \/ Rerun

Spec == Init /\ [][Next]_vars

(***************************************************************************)
(* The planner alone: plan(operations, analysis) builds the stages         *)
(***************************************************************************)
RestPlan == << << [metadata |-> [id |-> <<"j">>], operation |-> CodeOp(PathA)] >> >>
RestOptions == [dryRun |-> TRUE, autoConfirm |-> FALSE, journal |-> FALSE]
RestFs == [f \in Files |-> Absent]

InitPlanner ==
  /\ \E ops \in OperationLists : PlannerStart(ops)
  /\ ExecutorStart(RestPlan, RestOptions, RestFs)

PlanStages ==
  /\ ~planned.done
  /\ planned' = [done |-> TRUE, risks |-> buildRiskAssessment(operations, analysis)]
                 @@ buildStages(operations)
  /\ UNCHANGED <<operations, analysis, analysed, pointers, builder, executor>>

NextPlanner == PlanStages

SpecPlanner == InitPlanner /\ [][NextPlanner]_vars

(***************************************************************************)
(* The planner on longer lists whose operations declare at most one        *)
(* dependency each                                                         *)
(***************************************************************************)
OrderOps == 4

OrderIds == { PlanIds[i] : i \in 1..OrderOps }

\* lists of OrderOps operations, each with no dependency or one on an id of
\* the list
OrderLists ==
  { [i \in 1..OrderOps |-> [id |-> PlanIds[i], dependencies |-> d[i]]] :
      d \in [1..OrderOps -> {<<>>} \cup { <<id>> : id \in OrderIds }] }

InitOrder ==
  /\ \E ops \in OrderLists : PlannerStartWith(ops, [id \in OrderIds |-> NoAnalysis])
  /\ ExecutorStart(RestPlan, RestOptions, RestFs)

SpecOrder == InitOrder /\ [][NextPlanner]_vars

(***************************************************************************)
(* The planner's risk assessment over analysis maps                        *)
(***************************************************************************)
RiskLevels == {"safe", "moderate", "high"}

\* analysis maps: for each id no result, or a result of some risk
AnalysisMaps ==
  [PlanIdSet -> {NoAnalysis} \cup { Analysis(TRUE, Undef, r) : r \in RiskLevels }]

\* operation lists without dependencies, in any order of their ids
RiskLists ==
  { ops \in UNION { [1..n -> [id : PlanIdSet, dependencies : {<<>>}]] :
                    n \in 0..MaxPlanOps } :
      \A i, j \in 1..Len(ops) : ops[i].id = ops[j].id => i = j }

InitRisk ==
  /\ \E ops \in RiskLists, results \in AnalysisMaps : PlannerStartWith(ops, results)
  /\ ExecutorStart(RestPlan, RestOptions, RestFs)

SpecRisk == InitRisk /\ [][NextPlanner]_vars

(***************************************************************************)
(* Analysis, plan and execute of file operations: the plan's file diff is  *)
(* built from the analysis of the workspace the run starts on              *)
(***************************************************************************)
FileCatalog ==
  { FileOp("ensure", PathA, Str(<<"A">>), "none"),
    FileOp("update", PathA, Str(<<"B">>), "none"),
    FileOp("update", PathA, Str(<<"B">>), "bad"),
    FileOp("delete", PathA, Undef, "none"),
    FileOp("ensure", PathOut, Str(<<"A">>), "none"),
    TemplateOp("ensure", PathA, PathOut),
    ConfigOp("set", PathA, ScriptsS, Str(<<"c2">>), "deep") }

FilePlans ==
  LET opLists == { ops \in UNION { [1..n -> [metadata : [id : Ids], operation : FileCatalog]] :
                                   n \in 1..MaxOps } : UniqueIds(ops) }
  IN { <<ops>> : ops \in opLists }
     \cup { [i \in 1..Len(ops) |-> <<ops[i]>>] : ops \in opLists }

InitDiff ==
  /\ \E p \in FilePlans, o \in Options, f \in InitialFs : ExecutorStart(p, o, f)
  /\ PlannerStart(<<>>)

SpecDiff == InitDiff /\ [][Next]_vars

(***************************************************************************)
(* Executors created with a registry of custom handlers                    *)
(***************************************************************************)
RegistryCatalog ==
  { FileOp("ensure", PathA, Str(<<"A">>), "none"),
    FileOp("update", PathA, Str(<<"B">>), "bad"),
    ConfigOp("set", PathA, ScriptsS, Str(<<"c2">>), "deep"),
    ScriptOp("ensure", PathP, <<"s">>, Str(<<"c2">>), "prompt"),
    CodeOp(PathA) }

\* plans of one stage, the operations named by their place
RegistryPlans ==
  { << [i \in 1..Len(ops) |->
          [metadata |-> [id |-> IF i = 1 THEN <<"i", "/">> ELSE <<"j">>],
           operation |-> ops[i]]] >> :
      ops \in UNION { [1..n -> RegistryCatalog] : n \in 1..MaxOps } }

KindSets == { {}, {"file"}, {"file", "config", "script", "code"} }

Registries ==
  { r \in { Registry(a, d, v, e, m) : a \in KindSets, d \in KindSets, v \in KindSets,
                                       e \in KindSets, m \in KindSets } :
      r.diffValues \in {{}, r.diffBuilders} /\ r.simulators \in {{}, r.executors} }

RegistryFs == { f \in InitialFs : f[FileP] \in {Absent, Json(DocS("c2"), TRUE)} }

InitRegistry ==
  /\ \E p \in RegistryPlans, o \in Options, f \in RegistryFs, r \in Registries :
       ExecutorStartWith(p, o, f, r)
  /\ PlannerStart(<<>>)

SpecRegistry == InitRegistry /\ [][Next]_vars

(***************************************************************************)
(* Runs whose journal was created with or without a log path               *)
(***************************************************************************)
InitJournal ==
  /\ \E p \in RegistryPlans, o \in Options, f \in RegistryFs, l \in {<<>>, PresetLog} :
       ExecutorStartLogged(p, o, f, NoRegistry, l)
  /\ PlannerStart(<<>>)

SpecJournal == InitJournal /\ [][Next]_vars

(***************************************************************************)
(* The caller reads the journal of a finished run: createChangeJournal's   *)
(* getEntries, and writes to what it got                                   *)
(***************************************************************************)
\* the place in the plan of the operation an entry was made for: the entry's
\* snapshots hold that operation's metadata object itself (captureSnapshot
\* returns metadata: operation.metadata)
MetadataRef(id) ==
  CHOOSE i \in 1..Len(Flatten(plan)) : Flatten(plan)[i].metadata.id = id

\* execute has returned and the caller will not run the plan again
Finished == pc = "done" /\ ~(run = 1 /\ result = "success" /\ ~opts.dryRun)

\* getEntries: a new array of new entry objects, each with a clone of the
\* operation and shallow copies { ...entry.before } and { ...entry.after },
\* whose metadata is the stored snapshot's metadata object
GetEntries ==
  /\ Finished /\ opts.journal
  /\ returned' = [k \in 1..Len(entries) |->
                    [operation |-> [metadata |-> [id |-> entries[k].id]],
                     before |-> [content |-> entries[k].before,
                                 metadata |-> MetadataRef(entries[k].id)],
                     after |-> IF entries[k].finished
                                 THEN [content |-> entries[k].after,
                                       metadata |-> MetadataRef(entries[k].id)]
                                 ELSE Undef,
                     backupPath |-> entries[k].backupPath]]
  /\ returned' # returned
  /\ UNCHANGED <<heap, planner, plan, opts, fs, bak,
                 logs, now, pc, si, oi, applied, failed, mutations, backupRegistry,
                 entries, logPath, cur, result, run, fs0, bak0, logs0, history,
                 registry, used, trace>>

Scribble == <<"x">>

\* the caller assigns to a part of a returned entry: a field of the entry, of
\* its operation's metadata, of its before snapshot, or of before.metadata
MutateReturned ==
  /\ Finished
  /\ \E k \in 1..Len(returned), part \in {"backupPath", "operation", "before",
                                           "before.metadata"} :
       CASE part = "backupPath" ->
              /\ returned' = [returned EXCEPT ![k].backupPath = Scribble]
              /\ UNCHANGED heap
         [] part = "operation" ->
              /\ returned' = [returned EXCEPT ![k].operation.metadata.id = Scribble]
              /\ UNCHANGED heap
         [] part = "before" ->
              /\ returned' = [returned EXCEPT ![k].before.content = Raw(Scribble)]
              /\ UNCHANGED heap
         [] part = "before.metadata" ->
              /\ heap' = [heap EXCEPT ![returned[k].before.metadata].id = Scribble]
              /\ UNCHANGED returned
  /\ UNCHANGED <<planner, plan, opts, fs, bak,
                 logs, now, pc, si, oi, applied, failed, mutations, backupRegistry,
                 entries, logPath, cur, result, run, fs0, bak0, logs0, history,
                 registry, used, trace>>

NextCaller == Next \/ GetEntries \/ MutateReturned

InitCaller ==
  /\ \E p \in RegistryPlans, o \in Options, f \in RegistryFs :
       ExecutorStart(p, o, f)
  /\ PlannerStart(<<>>)

SpecCaller == InitCaller /\ [][NextCaller]_vars

(***************************************************************************)
(* Script operations under each conflict resolution                        *)
(***************************************************************************)
Resolutions == {"keep", "replace", "prompt", "none"}

ScriptCatalog ==
  { ScriptOp("ensure", PathP, <<"s">>, Str(<<"c1">>), r) : r \in Resolutions }
  \cup { ScriptOp("update", PathP, <<"s">>, Str(<<"c1">>), r) : r \in {"keep", "none"} }
  \cup { FileOp("update", PathA, Str(<<"B">>), "bad") }

\* plans of one stage, the operations named by their place
ScriptPlans ==
  { << [i \in 1..Len(ops) |->
          [metadata |-> [id |-> IF i = 1 THEN <<"i", "/">> ELSE <<"j">>],
           operation |-> ops[i]]] >> :
      ops \in UNION { [1..n -> ScriptCatalog] : n \in 1..MaxOps } }

InitScript ==
  /\ \E p \in ScriptPlans, o \in Options, f \in InitialFs : ExecutorStart(p, o, f)
  /\ PlannerStart(<<>>)

SpecScript == InitScript /\ [][Next]_vars

(***************************************************************************)
(* The analyzer alone: analyzeAll on config merge operations               *)
(***************************************************************************)
PointerK == <<"/", "k">>
KeyA == <<"a">>
KeyB == <<"b">>

\* scalars, an array and the empty object
Leaves == { Null, Str(<<"c1">>), Str(<<"c2">>), Arr(<< Str(<<"c1">>) >>), EmptyObj }

\* objects of the keys a and b over the leaves, and such objects under the key a
FlatObjects ==
  { EmptyObj }
  \cup { Obj(<< [k |-> KeyA, v |-> x] >>) : x \in Leaves }
  \cup { Obj(<< [k |-> KeyB, v |-> x] >>) : x \in Leaves }
  \cup { Obj(<< [k |-> KeyA, v |-> x], [k |-> KeyB, v |-> y] >>) : x \in Leaves, y \in Leaves }

MergeValues == FlatObjects \cup { Obj(<< [k |-> KeyA, v |-> o] >>) : o \in FlatObjects }

\* the documents: nothing under the key k, or a leaf or a merge value under it
MergeDocuments ==
  { EmptyObj } \cup { Obj(<< [k |-> <<"k">>, v |-> c] >>) : c \in Leaves \cup MergeValues }

AnalyzerPlans ==
  { << << [metadata |-> [id |-> <<"j">>],
           operation |-> ConfigOp("merge", PathA, PointerK, v, "deep")] >> >> :
      v \in MergeValues }

AnalyzerFs == { [f \in Files |-> IF f = FileA THEN Json(d, TRUE) ELSE Absent] :
                d \in MergeDocuments }

InitAnalyzer ==
  /\ \E p \in AnalyzerPlans, f \in AnalyzerFs : ExecutorStart(p, RestOptions, f)
  /\ PlannerStart(<<>>)

\* analyzeAll(operations) on the workspace
AnalyzeAll ==
  /\ ~analysed.done
  /\ analysed' = [done |-> TRUE,
                  results |-> [i \in 1..Len(Flatten(plan)) |->
                                 BasicAnalyzerAnalyze(registry, Flatten(plan)[i], fs).result]]
  /\ UNCHANGED <<operations, analysis, planned, pointers, builder, executor>>

NextAnalyzer == AnalyzeAll

SpecAnalyzer == InitAnalyzer /\ [][NextAnalyzer]_vars

(***************************************************************************)
(* Config operations on documents of every shape: key order, arrays,       *)
(* nested pointers, root pointers, documents that are no object            *)
(***************************************************************************)
PointerKA == <<"/", "k", "/", "a">>
ConfigPointers == { <<>>, <<"/">>, PointerK, PointerKA }

PairAB == Obj(<< [k |-> KeyA, v |-> Str(<<"c1">>)], [k |-> KeyB, v |-> Str(<<"c2">>)] >>)
PairBA == Obj(<< [k |-> KeyB, v |-> Str(<<"c2">>)], [k |-> KeyA, v |-> Str(<<"c1">>)] >>)

ConfigValues ==
  { Str(<<"c1">>), Null, EmptyObj, PairAB, PairBA,
    Obj(<< [k |-> KeyA, v |-> Str(<<"c1">>)] >>),
    Obj(<< [k |-> KeyA, v |-> Null] >>),
    Arr(<< Str(<<"c1">>), Str(<<"c2">>) >>),
    Arr(<< Str(<<"c2">>), Str(<<"c1">>) >>) }

\* the documents: {}, a string, null, or a value under the key k
ConfigDocuments ==
  { EmptyObj, Str(<<"c1">>), Null }
  \cup { Obj(<< [k |-> <<"k">>, v |-> c] >>) : c \in ConfigValues }

ConfigCatalog ==
  { ConfigOp("set", PathA, ptr, v, "deep") : ptr \in ConfigPointers, v \in ConfigValues }
  \cup { ConfigOp("merge", PathA, ptr, v, strategy) :
           ptr \in ConfigPointers, v \in ConfigValues, strategy \in {"shallow", "deep"} }
  \cup { ConfigOp("unset", PathA, ptr, Undef, "deep") : ptr \in ConfigPointers }
  \cup { FileOp("update", PathA, Str(<<"B">>), "bad") }

ConfigPlans ==
  { << << [metadata |-> [id |-> <<"j">>], operation |-> op] >> >> : op \in ConfigCatalog }

ConfigFs ==
  { [f \in Files |-> IF f = FileA THEN bytes ELSE Absent] :
      bytes \in {Absent} \cup { Json(d, TRUE) : d \in ConfigDocuments } }

InitConfig ==
  /\ \E p \in ConfigPlans, o \in Options, f \in ConfigFs : ExecutorStart(p, o, f)
  /\ PlannerStart(<<>>)

SpecConfig == InitConfig /\ [][Next]_vars

(***************************************************************************)
(* The planner on config operations: plan(operations, analysis) on         *)
(* operations that carry their config operation                            *)
(***************************************************************************)
RootOps == 2

RootPointers == { <<>>, <<"/">>, PointerK }

RootCatalog ==
  { ConfigOp(action, PathA, ptr, IF action = "unset" THEN Undef ELSE Str(<<"c1">>), "deep") :
      action \in {"set", "merge", "unset"}, ptr \in RootPointers }

RootIds == { PlanIds[i] : i \in 1..RootOps }

\* lists of operations with pairwise distinct ids, each with its config
\* operation and no dependency or one on an id of the list or on a missing id
RootLists ==
  UNION { { [i \in 1..n |-> [id |-> PlanIds[i], dependencies |-> d[i],
                             operation |-> c[i]]] :
              d \in [1..n -> {<<>>, <<MissingId>>} \cup { <<id>> : id \in RootIds }],
              c \in [1..n -> RootCatalog] } : n \in 0..RootOps }

InitRoot ==
  /\ \E ops \in RootLists : PlannerStartWith(ops, [id \in RootIds |-> NoAnalysis])
  /\ ExecutorStart(RestPlan, RestOptions, RestFs)

SpecRoot == InitRoot /\ [][NextPlanner]_vars

(***************************************************************************)
(* The SetupBuilder: operations pushed with generated or supplied ids      *)
(***************************************************************************)
MaxBuilderOps == 2

\* the decimal text of the counter, which stays below 10
Decimal(n) == << <<"0", "1", "2", "3", "4", "5", "6", "7", "8", "9">>[n + 1] >>

\* generateId(prefix) after the counter's increment: `${prefix}-${nextIdCounter}`
generateId(prefix, nextIdCounter) == <<prefix, "-">> \o Decimal(nextIdCounter)

\* the metadata.id values a caller supplies; NoString when it supplies none
SuppliedIds == { <<"x">>, <<"file", "-", "1">>, <<"config", "-", "2">> }

\* the ids a dependsOn call names
DependIds == { <<"x">>, <<"file", "-", "1">> }

\* Array.from(new Set([...dependencies, id])): the id joins once, at the end
Union(dependencies, id) ==
  IF \E k \in 1..Len(dependencies) : dependencies[k] = id
    THEN dependencies ELSE Append(dependencies, id)

\* createMetadata(prefix, metadata): metadata?.id ?? this.generateId(prefix)
createMetadata(prefix, id, nextIdCounter) ==
  [id |-> IF id # NoString THEN id ELSE generateId(prefix, nextIdCounter + 1),
   dependencies |-> <<>>]

\* pushOperation(operation, prefix, metadata, fallbackDescription): the builder
\* after the push
pushOperation(state, prefix, id) ==
  [state EXCEPT
     !.operations = Append(@, createMetadata(prefix, id, state.nextIdCounter)),
     !.nextIdCounter = IF id # NoString THEN @ ELSE @ + 1]

\* the metadata option of a builder call: an id of the caller's or none
MetadataIds == SuppliedIds \cup {NoString}

EnsureFile ==
  /\ Len(builder.operations) < MaxBuilderOps
  /\ \E id \in MetadataIds : builder' = pushOperation(builder, "file", id)
  /\ UNCHANGED <<operations, analysis, analysed, planned, pointers, executor>>

EnsureFileFromTemplate ==
  /\ Len(builder.operations) < MaxBuilderOps
  /\ \E id \in MetadataIds : builder' = pushOperation(builder, "fileTpl", id)
  /\ UNCHANGED <<operations, analysis, analysed, planned, pointers, executor>>

EnsureConfigSection ==
  /\ Len(builder.operations) < MaxBuilderOps
  /\ \E id \in MetadataIds : builder' = pushOperation(builder, "config", id)
  /\ UNCHANGED <<operations, analysis, analysed, planned, pointers, executor>>

EnsureImport ==
  /\ Len(builder.operations) < MaxBuilderOps
  /\ \E id \in MetadataIds : builder' = pushOperation(builder, "import", id)
  /\ UNCHANGED <<operations, analysis, analysed, planned, pointers, executor>>

SuggestScript ==
  /\ Len(builder.operations) < MaxBuilderOps
  /\ \E id \in MetadataIds : builder' = pushOperation(builder, "script", id)
  /\ UNCHANGED <<operations, analysis, analysed, planned, pointers, executor>>

AddOperation ==
  /\ Len(builder.operations) < MaxBuilderOps
  /\ \E id \in MetadataIds : builder' = pushOperation(builder, "custom", id)
  /\ UNCHANGED <<operations, analysis, analysed, planned, pointers, executor>>

\* dependsOn(id) on the last operation; it throws before any operation
BuilderDependsOn ==
  /\ Len(builder.operations) >= 1
  /\ \E id \in DependIds :
       builder' = [builder EXCEPT
                    !.operations[Len(builder.operations)].dependencies = Union(@, id)]
  /\ UNCHANGED <<operations, analysis, analysed, planned, pointers, executor>>

\* build(): a copy of the list, whose elements stay the builder's own objects
Build ==
  /\ builder.built # Len(builder.operations)
  /\ builder' = [builder EXCEPT !.built = Len(builder.operations)]
  /\ UNCHANGED <<operations, analysis, analysed, planned, pointers, executor>>

\* the operations the last build() returned
Built == SubSeq(builder.operations, 1, builder.built)

InitBuilder ==
  /\ PlannerStart(<<>>)
  /\ ExecutorStart(RestPlan, RestOptions, RestFs)

NextBuilder ==
  \/ EnsureFile \/ EnsureFileFromTemplate \/ EnsureConfigSection
  \/ EnsureImport \/ SuggestScript \/ AddOperation
  \/ BuilderDependsOn \/ Build

SpecBuilder == InitBuilder /\ [][NextBuilder]_vars

(***************************************************************************)
(* The analyzer alone: analyzeAll on file operations that carry a checksum *)
(***************************************************************************)
ChecksumContents == {<<"A">>, <<"B">>}

ChecksumCatalog ==
  { ChecksumOp(action, PathA, content, checksum) :
      action \in {"ensure", "update", "delete"},
      content \in {Undef} \cup { Str(c) : c \in ChecksumContents },
      checksum \in {Undef} \cup { Str(sha256(Raw(c))) : c \in ChecksumContents } }

ChecksumPlans ==
  { << << [metadata |-> [id |-> <<"j">>], operation |-> op] >> >> : op \in ChecksumCatalog }

ChecksumFs ==
  { [f \in Files |-> IF f = FileA THEN bytes ELSE Absent] :
      bytes \in {Absent} \cup { Raw(c) : c \in ChecksumContents } }

InitChecksum ==
  /\ \E p \in ChecksumPlans, f \in ChecksumFs : ExecutorStart(p, RestOptions, f)
  /\ PlannerStart(<<>>)

SpecChecksum == InitChecksum /\ [][NextAnalyzer]_vars

(***************************************************************************)
(* decodePointer alone, on the RFC 6901 encodings of token lists           *)
(***************************************************************************)
MaxTokens == 2
MaxTokenLen == 2

PointerChars == {"/", "~", "0", "1", "a"}
Tokens == UNION { [1..n -> PointerChars] : n \in 0..MaxTokenLen }
TokenLists == UNION { [1..n -> Tokens] : n \in 0..MaxTokens }

\* str.replace(/c/g, r) for a one-character pattern
RECURSIVE ReplaceChar(_, _, _)
ReplaceChar(str, c, r) ==
  IF Len(str) = 0 THEN <<>>
  ELSE (IF str[1] = c THEN r ELSE <<str[1]>>) \o ReplaceChar(Tail(str), c, r)

\* RFC 6901: ~ is written ~0, then / is written ~1; one leading / per token
encodeToken(token) == ReplaceChar(ReplaceChar(token, "~", <<"~", "0">>), "/", <<"~", "1">>)
RECURSIVE encodePointer(_)
encodePointer(tokens) ==
  IF Len(tokens) = 0 THEN <<>>
  ELSE <<"/">> \o encodeToken(tokens[1]) \o encodePointer(Tail(tokens))

InitPointer ==
  /\ \E tokens \in TokenLists : PointerStart(encodePointer(tokens))
  /\ operations = <<>> /\ analysis = [id \in PlanIdSet |-> NoAnalysis]
  /\ analysed = NotAnalysed /\ planned = NotPlanned
  /\ builder = NewBuilder
  /\ ExecutorStart(RestPlan, RestOptions, RestFs)

DecodePointer ==
  /\ ~decoded.done
  /\ decoded' = [done |-> TRUE, segments |-> decodePointer(pointer)]
  /\ UNCHANGED <<pointer, operations, analysis, analysed, planned, builder, executor>>

NextPointer == DecodePointer

SpecPointer == InitPointer /\ [][NextPointer]_vars

(***************************************************************************)
(* Properties of the executor                                              *)
(***************************************************************************)
FlatPlan == Flatten(plan)
\* the position in the plan of the operation execute is at
Position == Len(Flatten(SubSeq(plan, 1, si - 1))) + oi
BuiltIn(op) == op.operation.kind \in {"file", "config", "script"}
AllBuiltIn == \A i \in 1..Len(FlatPlan) : BuiltIn(FlatPlan[i])
Escapes(op) == BuiltIn(op) /\ ~InsideWorkspace(workspaceRoot, op.operation.path)
Returned == pc = "done" /\ result \in {"success", "failure"}
RealFailure == pc = "done" /\ result = "failure" /\ ~opts.dryRun
RealSuccess == pc = "done" /\ result = "success" /\ ~opts.dryRun
DiskUntouched == fs = fs0 /\ bak = bak0 /\ logs = logs0

\* C1: rollback completeness.  When a real run of a plan of built-in operations
\* has failed at position k and execute has returned, the target of every
\* operation before k holds the bytes it held before the run (or is absent as
\* before the run).
C1_RollbackCompleteness ==
  (RealFailure /\ AllBuiltIn) =>
    \A j \in 1..(Position - 1) :
      fs[Target(FlatPlan[j].operation)] = fs0[Target(FlatPlan[j].operation)]

\* C2: after a failed run has rolled back, every path the run wrote or removed,
\* the failing operation's own write included, is as it was before the run.
C2_RollbackRestoresEveryPath ==
  RealFailure =>
    \A i \in 1..Len(history) : fs[history[i].targetPath] = fs0[history[i].targetPath]

\* C3: idempotence.  A second execute of a plan of built-in operations on the
\* workspace its successful real run left changes no file, creates no backup
\* and returns applied = [].
C3_Idempotence ==
  (run = 2 /\ Returned /\ AllBuiltIn) =>
    (fs = fs0 /\ bak = bak0 /\ applied = <<>>)

\* C4: path safety.  When the plan holds a file, config or script operation
\* whose path resolves outside the workspace root, execute returns
\* success = false and has created, modified or deleted no file, in real runs
\* and in dry runs.
C4_PathSafety ==
  (Returned /\ \E i \in 1..Len(FlatPlan) : Escapes(FlatPlan[i])) =>
    (result = "failure" /\ DiskUntouched)

\* C5: a dry run leaves the workspace and the backup directory unchanged, with
\* or without a journal, and applied is empty.
C5_DryRunTouchesNothing ==
  opts.dryRun => (DiskUntouched /\ applied = <<>>)

\* C7: backup coverage.  After a successful real run every operation that
\* changed a file that existed before has a backup file holding the bytes the
\* target had just before that change, and no two operations share a backup file.
C7_BackupCoverage ==
  RealSuccess =>
    \A i \in 1..Len(history) :
      Exists(history[i].before) =>
        /\ history[i].backupPath \in DOMAIN bak
        /\ bak[history[i].backupPath] = history[i].before
        /\ \A j \in 1..Len(history) :
             j # i => history[j].backupPath # history[i].backupPath

Recorded(name) == \E i \in 1..Len(entries) : entries[i].backupPath = name
BetweenOperations == pc \in {"stage", "op", "done"}

\* C8: in a run with a journal a backup file exists on disk if and only if a
\* journal entry records its path; stated for the points between operations
\* and after the run has ended, successfully or not.
C8_BackupIffJournalEntry ==
  (opts.journal /\ run = 1 /\ BetweenOperations) =>
    /\ \A name \in DOMAIN bak : Recorded(name)
    /\ \A i \in 1..Len(entries) :
         entries[i].backupPath # NoBackup => entries[i].backupPath \in DOMAIN bak

\* the state an operation declares, on a disk d
ConfigDocument(op, d) == Parse(d[Target(op)])
PointerValue(op, d) == GetAt(ConfigDocument(op, d), decodePointer(op.pointer))
ScriptEntry(op, d) == GetAt(ConfigDocument(op, d), << <<"scripts">>, op.name >>)
IsJson(bytes) == Exists(bytes) /\ ~ParseFails(bytes)

DeclaredTarget(op, d) ==
  CASE op.kind = "file" ->
         IF op.action = "delete" THEN ~Exists(d[Target(op)])
         ELSE d[Target(op)] = resolveFileContent(op, d).bytes
    [] op.kind = "config" ->
         /\ IsJson(d[Target(op)])
         /\ PointerValue(op, d) = (IF op.action = "unset" THEN Undef ELSE op.value)
    [] op.kind = "script" ->
         /\ IsJson(d[Target(op)])
         /\ ScriptEntry(op, d) = (IF op.action = "delete" THEN Undef ELSE op.command)
    [] OTHER -> FALSE

\* C9: after a successful real run the disk shows the declared target of every
\* operation in applied: the resolved content of a file (or no file after a
\* delete), the operation's value at a config pointer (or no key after an
\* unset), the command as the script entry (or no entry after a delete).
C9_AppliedReachedTarget ==
  RealSuccess =>
    \A i \in 1..Len(applied) : DeclaredTarget(applied[i].operation, fs)

\* C10: execute always returns a result and never throws.
C10_ExecuteNeverThrows == result # "threw"

\* C11: in a real run an operation whose kind has no built-in and no registered
\* executor fails: execute returns success = false with that operation as
\* failed[0], and every file earlier operations created or changed is as it
\* was before the run.
C11_UnsupportedKindFails ==
  (RealFailure /\ ~BuiltIn(FlatPlan[Position])) =>
    (failed = <<FlatPlan[Position]>> /\ fs = fs0)

\* the file diff the plan holds for the operation at position i: built from
\* the analysis of the workspace the run started on, or from no analysis
FreshDiff(i) ==
  buildFileDiff(FlatPlan[i].operation, FileAnalyzerAnalyze(FlatPlan[i].operation, fs0))
BlindDiff(i) == buildFileDiff(FlatPlan[i].operation, NoAnalysis)
FilePositions == { i \in 1..Len(FlatPlan) : FlatPlan[i].operation.kind = "file" }
HasAfter(diff) == diff.preview # Undef /\ diff.preview.after # Undef

\* C12: for every FileDiff of the plan with status = modified and a defined
\* preview.after, the file holds exactly preview.after once the plan has been
\* applied successfully.
C12_ModifiedMatchesPreview ==
  (RealSuccess /\ run = 1) =>
    \A i \in FilePositions : \A diff \in {FreshDiff(i), BlindDiff(i)} :
      (diff.status = "modified" /\ HasAfter(diff)) =>
        fs[Target(FlatPlan[i].operation)] = diff.preview.after

\* no operation executed after position i has the same target file
NoLaterOnPath(i) ==
  \A j \in (i + 1)..Len(FlatPlan) :
    Target(FlatPlan[j].operation) # Target(FlatPlan[i].operation)

CreatedWasAbsent ==
  \A i \in FilePositions :
    FreshDiff(i).status = "created" => ~Exists(fs0[Target(FlatPlan[i].operation)])

\* C13 as stated: for a plan built from a fresh analysis, no file existed
\* before the run at the path of a FileDiff with status = created, and no file
\* exists after a successful run at the path of a FileDiff with status = deleted.
C13_CreatedAbsentDeletedGone ==
  run = 1 =>
    /\ CreatedWasAbsent
    /\ RealSuccess =>
         \A i \in FilePositions :
           FreshDiff(i).status = "deleted" => ~Exists(fs[Target(FlatPlan[i].operation)])

\* C13 amended: the deleted half holds for every FileDiff with status = deleted
\* whose path is the target of no operation executed after the delete.
C13_DeletedGoneUnlessRewritten ==
  run = 1 =>
    /\ CreatedWasAbsent
    /\ RealSuccess =>
         \A i \in FilePositions :
           (FreshDiff(i).status = "deleted" /\ NoLaterOnPath(i)) =>
             ~Exists(fs[Target(FlatPlan[i].operation)])

\* a successful real run whose plan created a file and then, as the last
\* operation on that path, deleted it
C13_Witness ==
  /\ RealSuccess /\ run = 1
  /\ \E i, j \in FilePositions :
       /\ FreshDiff(j).status = "created"
       /\ FreshDiff(i).status = "deleted" /\ NoLaterOnPath(i)
       /\ \E k \in 1..Len(applied) : applied[k] = FlatPlan[i]
       /\ ~Exists(fs[Target(FlatPlan[i].operation)])

\* the tracked files that lie outside the workspace root, and a disk on which
\* they do not exist
Outside == { f \in Files : ~(Len(f) > Len(workspaceRoot) /\ IsPrefix(workspaceRoot, f)) }
WithoutOutside(files) == [f \in Files |-> IF f \in Outside THEN Absent ELSE files[f]]

\* C18: an operation whose path resolves outside the workspace root causes no
\* I/O on the resolved path: its file analysis is what it would be were the
\* outside file not there, no journal entry made for it holds a snapshot of
\* the outside file, and the executor leaves the outside file as it was.
C18_NoIoOnEscapingPath ==
  /\ \A i \in 1..Len(FlatPlan) :
       (Escapes(FlatPlan[i]) /\ FlatPlan[i].operation.kind = "file") =>
         FileAnalyzerAnalyze(FlatPlan[i].operation, fs0)
           = FileAnalyzerAnalyze(FlatPlan[i].operation, WithoutOutside(fs0))
  /\ \A k \in 1..Len(entries) :
       \A i \in 1..Len(FlatPlan) :
         (Escapes(FlatPlan[i]) /\ entries[k].id = FlatPlan[i].metadata.id) =>
           ~Exists(entries[k].before) /\ ~Exists(entries[k].after)
  /\ \A f \in Outside : fs[f] = fs0[f]

\* the journal's log path was set by persistJournal in this run
LogPathGenerated == logPath \notin {<<>>, PresetLog}

\* C19: the log file is written only by the end of a successful run, one file
\* under a name generated then, and exactly when the journal has an entry and
\* was created without a log path; a failed run, and a run whose journal
\* already has a log path, write no log file.
C19_LogPersistence ==
  /\ ~(pc = "done" /\ result = "success") => (logs = logs0 /\ ~LogPathGenerated)
  /\ (pc = "done" /\ result = "success") =>
       /\ LogPathGenerated <=> (opts.journal /\ Len(entries) > 0 /\ logPath # PresetLog)
       /\ logs = IF LogPathGenerated THEN logs0 \cup {logPath} ELSE logs0
  /\ logPath = PresetLog => logs = logs0

\* scripts[name] of the manifest a script operation targets, Undef when the
\* manifest is missing or unparsable or has no such entry
ExistingEntry(operation, files) ==
  LET current == files[Target(operation)]
  IN IF ~Exists(current) \/ ParseFails(current) THEN Undef
     ELSE LET scripts == GetKey(Parse(current), <<"scripts">>)
          IN IF scripts \in {Undef, Null} THEN Undef ELSE GetKey(scripts, operation.name)

\* a script ensure/update inside the workspace that finds an entry whose
\* command differs from its own
ScriptConflict(op, files) ==
  /\ op.operation.kind = "script" /\ op.operation.action \in {"ensure", "update"}
  /\ InsideWorkspace(workspaceRoot, op.operation.path)
  /\ ExistingEntry(op.operation, files) \notin {Undef, op.operation.command}

\* the operation's resolution is prompt, given or by default
Prompts(op) == op.operation.conflictResolution \in {"prompt", "none"}

\* C20: when the applier runs on a script ensure/update that finds an entry
\* with a different command, keep reports unchanged and writes nothing,
\* replace goes on to write a manifest with the entry overwritten, prompt
\* (given or by default) does so only if autoConfirm is true and otherwise
\* fails without writing; the write that follows puts that manifest on disk.
C20_ScriptConflictResolution ==
  [][ /\ (pc = "apply" /\ ScriptConflict(Current, fs)) =>
           LET overwrites ==
                 /\ pc' = "write" /\ fs' = fs
                 /\ ExistingEntry(Current.operation,
                                [fs EXCEPT ![Target(Current.operation)] = cur'.bytes])
                      = Current.operation.command
           IN CASE Current.operation.conflictResolution = "keep" ->
                     pc' = "after" /\ ~cur'.changed /\ fs' = fs /\ applied' = applied
                [] Current.operation.conflictResolution = "replace" -> overwrites
                [] Prompts(Current) /\ opts.autoConfirm -> overwrites
                [] Prompts(Current) /\ ~opts.autoConfirm -> pc' = "fail" /\ fs' = fs
      /\ (pc = "write" /\ ScriptConflict(Current, fs)) =>
           (pc' = "after" /\ fs'[Target(Current.operation)] = cur.bytes) ]_vars

\* a real run that ended in success after a prompt script operation (given or
\* by default) overwrote a differing entry under autoConfirm
C20_Witness ==
  /\ RealSuccess /\ run = 1 /\ opts.autoConfirm /\ Len(FlatPlan) = 1
  /\ Prompts(FlatPlan[1]) /\ ScriptConflict(FlatPlan[1], fs0)
  /\ ExistingEntry(FlatPlan[1].operation, fs) = FlatPlan[1].operation.command
  /\ applied = FlatPlan

\* subset is a deep subset of target: an object's every key is a key of the
\* target (an object or an array) whose value is a deep subset of the target's
\* value; arrays and scalars are deep subsets of what they deeply equal
RECURSIVE DeepSubset(_, _)
DeepSubset(target, subset) ==
  IF IsObj(subset)
    THEN /\ IsObject(target)
         /\ \A i \in 1..Len(subset.kv) :
              /\ HasKey(target, subset.kv[i].k)
              /\ DeepSubset(GetKey(target, subset.kv[i].k), subset.kv[i].v)
    ELSE isDeepStrictEqual(target, subset)

\* C21: for a config merge of an object value on a parsed document, the
\* analysis reports needed = false exactly when the value is a deep subset of
\* the document's value at the pointer.
C21_MergeNeededIffNotSubset ==
  analysed.done =>
    \A i \in 1..Len(FlatPlan) :
      LET op == FlatPlan[i].operation
      IN (op.kind = "config" /\ op.action = "merge" /\ IsObj(op.value)
          /\ IsJson(fs[Target(op)])) =>
           (analysed.results[i].needed
              <=> ~DeepSubset(GetAt(Parse(fs[Target(op)]), decodePointer(op.pointer)),
                              op.value))

\* the journal's entries as values: what getEntries returns, every reference
\* replaced by the object it refers to in the heap h
JournalValue(h) ==
  [k \in 1..Len(entries) |->
     [operation |-> [metadata |-> [id |-> entries[k].id]],
      before |-> [content |-> entries[k].before, metadata |-> h[MetadataRef(entries[k].id)]],
      after |-> IF entries[k].finished
                  THEN [content |-> entries[k].after,
                        metadata |-> h[MetadataRef(entries[k].id)]]
                  ELSE Undef,
      backupPath |-> entries[k].backupPath]]

\* C22: whatever the caller writes to the entries getEntries returned, the
\* journal's stored entries, and so what a later getEntries returns, are what
\* the run recorded.
C22_EntriesProtected ==
  JournalValue(heap) = JournalValue([i \in 1..Len(FlatPlan) |-> FlatPlan[i].metadata])

\* C23: decoding the RFC 6901 encoding of a list of reference tokens yields
\* the list: the decoded segments of a pointer are the one token list whose
\* encoding the pointer is.
C23_PointerRoundTrip ==
  decoded.done =>
    \A tokens \in TokenLists :
      encodePointer(tokens) = pointer => decoded.segments = tokens

\* the place in the plan of the operation named id
PlaceOf(id) == CHOOSE i \in 1..Len(FlatPlan) : FlatPlan[i].metadata.id = id
FailedEvent(k) == trace[k].call = "progress" /\ trace[k].status = "failed"

\* C24: after the first operation fails execute starts no further operation:
\* once failed has an entry the run is over, failed has exactly one entry, the
\* failed event is followed by no call but the journal's rollback, no progress
\* event, journal call, applier call or write is for an operation later in the
\* plan than the failed one, and commitStage was called only for stages before
\* the failing one.
C24_StopAtFirstFailure ==
  /\ Len(failed) <= 1
  /\ failed # <<>> => pc = "done"
  /\ \A k \in 1..Len(trace) :
       FailedEvent(k) =>
         /\ Len(failed) = 1 /\ failed[1].metadata.id = trace[k].id
         /\ \A m \in (k + 1)..Len(trace) : trace[m].call = "rollback"
         /\ \A m \in 1..Len(trace) :
              /\ trace[m].call = "commitStage" => trace[m].stage < trace[k].stage
              /\ trace[m].id # <<>> => PlaceOf(trace[m].id) <= PlaceOf(trace[k].id)
         /\ \A h \in 1..Len(history) : PlaceOf(history[h].id) <= PlaceOf(trace[k].id)

\* a run of a plan of two stages has failed in the first
C24_Witness ==
  /\ Len(failed) = 1 /\ pc = "done" /\ Len(plan) = 2 /\ si = 1
  /\ \E k \in 1..Len(trace) : FailedEvent(k)

\* the built-in analyzer reports needed = false for the operation on these files
NotNeeded(op, files) == ~BasicAnalyzerAnalyze(NoRegistry, op, files).result.needed

\* C25: analyzer and executor agree on no-ops: on every workspace state, a
\* file, config or script operation of the plan that the built-in analyzer
\* reports as not needed is applied without a change: the applier neither
\* throws nor writes nor makes a backup, it reports changed = false.
C25_AnalyzerExecutorAgree ==
  \A i \in 1..Len(FlatPlan) :
    (FlatPlan[i].operation.kind \in {"file", "config", "script"}
     /\ NotNeeded(FlatPlan[i], fs)) =>
      applyOperation(FlatPlan[i].operation, fs, opts.autoConfirm).outcome = "unchanged"

IsProgress(c) == c.call = "progress"
\* the progress events emitted so far, in order
ProgressEvents == SelectSeq(trace, IsProgress)
\* the stage of the plan that holds the operation at place i of the plan
StageOfPlace(i) ==
  CHOOSE st \in 1..Len(plan) :
    /\ Len(Flatten(SubSeq(plan, 1, st - 1))) < i
    /\ i <= Len(Flatten(SubSeq(plan, 1, st)))
OperationRunning == pc \in {"apply", "write", "after", "fail"}

JournalledRun == opts.journal /\ ~opts.dryRun
\* call k of the trace is the call named name for the operation named id
IsCall(k, name, id) == trace[k].call = name /\ trace[k].id = id
\* the backup path the applier of the operation named id returned
ReturnedBackup(id) ==
  IF \E h \in 1..Len(history) : history[h].id = id
    THEN history[CHOOSE h \in 1..Len(history) : history[h].id = id].backupPath
    ELSE NoBackup
\* the operations of stage st
StageIds(st) == { plan[st][i].metadata.id : i \in 1..Len(plan[st]) }
\* the journal holds an entry of the operation with a before snapshot and no
\* after snapshot
OpenEntry(id) ==
  \E e \in 1..Len(entries) :
    entries[e].id = id /\ ~entries[e].finished /\ entries[e].after = Absent

\* startStage before the stage's operations, beforeOperation before the
\* applier and afterOperation after it with the applier's backup path,
\* commitStage after the stage's operations completed and before the next
\* startStage
StageAndOperationCalls ==
  \A k \in 1..Len(trace) :
    /\ trace[k].id # <<>> =>
         \E m \in 1..(k - 1) :
           trace[m].call = "startStage" /\ trace[m].stage = trace[k].stage
    /\ trace[k].call = "applyOperation" =>
         k > 1 /\ IsCall(k - 1, "beforeOperation", trace[k].id)
    /\ trace[k].call = "afterOperation" =>
         /\ k > 1 /\ IsCall(k - 1, "applyOperation", trace[k].id)
         /\ trace[k].backupPath = ReturnedBackup(trace[k].id)
    /\ trace[k].call = "commitStage" =>
         /\ \A id \in StageIds(trace[k].stage) :
              \E m \in 1..(k - 1) :
                IsCall(m, "progress", id) /\ trace[m].status = "completed"
         /\ \A m \in 1..(k - 1) : ~FailedEvent(m)
    /\ (trace[k].call = "startStage" /\ trace[k].stage > 1) =>
         k > 1 /\ trace[k - 1].call = "commitStage"
               /\ trace[k - 1].stage = trace[k].stage - 1

BackupHolds(name, bytes) == name \in DOMAIN bak /\ bak[name] = bytes

\* C28: backup precedes mutation: when a built-in applier is about to overwrite
\* or remove an existing file, the backup it made holds the file's bytes; and
\* at every point of a run, every change made so far to a file that existed
\* has a backup file holding the bytes the file had just before that change.
C28_BackupPrecedesMutation ==
  /\ (pc = "write" /\ Exists(fs[Target(Current.operation)])) =>
       BackupHolds(cur.backupPath, fs[Target(Current.operation)])
  /\ \A i \in 1..Len(history) :
       Exists(history[i].before) =>
         BackupHolds(history[i].backupPath, history[i].before)

\* the operation execute is at is applied by its built-in applier
BuiltInApplied ==
  /\ Current.operation.kind \in {"file", "config", "script"}
  /\ ~getExecutor(registry, Current.operation.kind).execute

\* C29: whenever a built-in applier reports changed = false (it returns
\* without reaching its write or removal), it has written or removed no file,
\* made no backup and appended nothing to the mutation log, it returns no
\* backup path, and the execute loop does not push the operation to applied.
C29_UnchangedIsNoOp ==
  [][ /\ (pc = "apply" /\ BuiltInApplied /\ pc' = "after") =>
           /\ ~cur'.changed /\ cur'.backupPath = NoBackup
           /\ UNCHANGED <<fs, bak, logs, mutations, backupRegistry, history>>
      /\ (pc = "after" /\ BuiltInApplied /\ ~cur.changed /\ pc' = "op") =>
           /\ UNCHANGED <<fs, bak, logs, mutations, backupRegistry, history>>
           /\ \A a \in 1..Len(applied') :
                applied'[a].metadata.id # Current.metadata.id ]_vars

\* a config operation without effect on an existing document came back from
\* its applier with changed = false
C29_Witness ==
  /\ pc = "after" /\ ~cur.changed /\ BuiltInApplied
  /\ Current.operation.kind = "config" /\ Exists(fs[Target(Current.operation)])

\* C30: a backup file is made only for an operation whose target existed just
\* before that operation's write or removal; an operation that created a file
\* has no backup, and the mutation log has its entry, which marks the target
\* as not existing before.
C30_BackupOnlyForExisting ==
  /\ (pc = "write" /\ cur.backupPath # NoBackup) => Exists(fs[Target(Current.operation)])
  /\ \A i \in 1..Len(history) :
       /\ history[i].backupPath # NoBackup => Exists(history[i].before)
       /\ ~Exists(history[i].before) =>
            /\ history[i].backupPath = NoBackup
            /\ i <= Len(mutations)
            /\ mutations[i].targetPath = history[i].targetPath
            /\ mutations[i].backupPath = NoBackup
            /\ ~mutations[i].existedBefore

\* C16: for every operation of the plan, of a built-in kind or not, a registered
\* analyzer of its kind is the handler that analyses it, a registered diff
\* builder of its kind that returns a diff is the handler whose diff the plan
\* gets, and in a real run a registered executor of its kind is the handler
\* that was called for it: never the built-in one.
C16_RegistryPrecedence ==
  /\ \A i \in 1..Len(FlatPlan) :
       LET op == FlatPlan[i]
           kind == op.operation.kind
           outcome == BasicAnalyzerAnalyze(registry, op, fs0)
       IN /\ kind \in registry.analyzers => outcome.handler = "registered"
          /\ (kind \in registry.diffBuilders /\ kind \in registry.diffValues) =>
               buildDiff(registry, op, NoAnalysis).handler = "registered"
  /\ \A k \in 1..Len(used) :
       (used[k].phase = "execute" /\ used[k].kind \in registry.executors) =>
         used[k].handler = "registered"

\* a real run that ended after the registered executor of the built-in kind
\* file was called for a file operation, under a registry that also holds an
\* analyzer and a diff builder with a diff for that kind
C16_Witness ==
  /\ pc = "done" /\ ~opts.dryRun
  /\ "file" \in registry.executors \cap registry.analyzers \cap registry.diffValues
                \cap registry.diffBuilders
  /\ \E k \in 1..Len(used) :
       used[k] = Invoked(FlatPlan[k], "execute", "registered") /\ used[k].kind = "file"

(***************************************************************************)
(* Properties of the planner                                               *)
(***************************************************************************)
PresentDeps(op) ==
  { op.dependencies[i] : i \in 1..Len(op.dependencies) } \cap IdsOf(operations)

\* the ids reachable from id through present dependencies in at most n steps
RECURSIVE DependsOn(_, _)
DependsOn(id, n) ==
  IF n = 0 THEN {}
  ELSE LET direct == PresentDeps(OperationOf(operations, id))
       IN direct \cup UNION { DependsOn(d, n - 1) : d \in direct }

Acyclic == \A id \in IdsOf(operations) : id \notin DependsOn(id, Len(operations))

StageOf(id) ==
  CHOOSE s \in 1..Len(planned.stages) :
    \E i \in 1..Len(planned.stages[s]) : planned.stages[s][i] = id

\* C6: dependency ordering.  For a list with unique ids whose present
\* dependencies contain no cycle, every operation is in a stage strictly later
\* than the stage of each of its present dependencies.
C6_DependencyOrdering ==
  (planned.done /\ Acyclic) =>
    \A i \in 1..Len(operations) :
      \A d \in PresentDeps(operations[i]) : StageOf(d) < StageOf(operations[i].id)

\* the list with every dependency on an absent id removed
WithoutMissing(ops) ==
  [i \in 1..Len(ops) |->
     [ops[i] EXCEPT !.dependencies = SelectSeq(@, LAMBDA d : d \in IdsOf(ops))]]
MissingDeps(op) ==
  { op.dependencies[i] : i \in 1..Len(op.dependencies) } \ IdsOf(operations)
Warned(kind, id, dep) ==
  \E w \in 1..Len(planned.warnings) :
    planned.warnings[w] = [kind |-> kind, op |-> id, dep |-> dep]
Staged(id) ==
  \E s \in 1..Len(planned.stages) :
    \E i \in 1..Len(planned.stages[s]) : planned.stages[s][i] = id

\* C14: missing dependency.  For every declared dependency on an id no
\* operation of the list carries, the plan warns naming the dependent operation
\* and the missing id, the operation is part of the plan, and the staging is
\* the one of the list without that dependency; an operation all of whose
\* dependencies are missing is in the first stage.
C14_MissingDependency ==
  planned.done =>
    /\ \A i \in 1..Len(operations) :
         /\ \A d \in MissingDeps(operations[i]) :
              Warned("missing", operations[i].id, d) /\ Staged(operations[i].id)
         /\ (MissingDeps(operations[i]) # {} /\ PresentDeps(operations[i]) = {}) =>
              StageOf(operations[i].id) = 1
    /\ planned.stages = buildStages(WithoutMissing(operations)).stages

\* a planned list in which one operation depends only on a missing id and
\* another on a missing id and on a present one
C14_Witness ==
  /\ planned.done
  /\ \E i, j \in 1..Len(operations) :
       /\ MissingDeps(operations[i]) # {} /\ PresentDeps(operations[i]) = {}
       /\ MissingDeps(operations[j]) # {} /\ PresentDeps(operations[j]) # {}
       /\ StageOf(operations[j].id) > 1

\* the operation is on a dependency cycle or depends, through present
\* dependencies, on an operation that is
OnCycle(id) == id \in DependsOn(id, Len(operations))
BehindCycle(id) ==
  OnCycle(id) \/ \E c \in DependsOn(id, Len(operations)) : OnCycle(c)

\* C15: cycle detection.  The dependency-cycle warning is emitted exactly when
\* the dependencies among present ids contain a cycle, and then every operation
\* the rounds left unprocessed is a stage of its own, in declaration order.
C15_CycleDetection ==
  planned.done =>
    /\ Warned("cycle", "", "") <=> ~Acyclic
    /\ \A i, j \in 1..Len(operations) :
         (BehindCycle(operations[i].id) /\ BehindCycle(operations[j].id)) =>
           /\ Len(planned.stages[StageOf(operations[i].id)]) = 1
           /\ i < j => StageOf(operations[i].id) < StageOf(operations[j].id)

\* the places of the plan that hold the operation named id
PlacesOf(id) ==
  { place \in UNION { { <<st, k>> : k \in 1..Len(planned.stages[st]) } :
                       st \in 1..Len(planned.stages) } :
      planned.stages[place[1]][place[2]] = id }
Deps(op) == { op.dependencies[i] : i \in 1..Len(op.dependencies) }
Repeats(op) ==
  \E i, j \in 1..Len(op.dependencies) : i # j /\ op.dependencies[i] = op.dependencies[j]

\* C31: stages partition the input.  For every operation list with pairwise
\* distinct ids, whatever its dependency lists hold (missing ids, repeated
\* entries, the operation's own id, cycles), every operation of the list is at
\* exactly one place of exactly one stage, and every stage holds only
\* operations of the list.
C31_StagesPartition ==
  planned.done =>
    /\ \A i \in 1..Len(operations) : Cardinality(PlacesOf(operations[i].id)) = 1
    /\ \A st \in 1..Len(planned.stages) :
         \A k \in 1..Len(planned.stages[st]) :
           planned.stages[st][k] \in IdsOf(operations)

\* a planned list of three operations: one depends on itself, one names a
\* dependency twice, one depends on a missing id and lies on a cycle
C31_Witness ==
  /\ planned.done /\ Len(operations) = 3
  /\ \E i, j, k \in 1..3 :
       /\ operations[i].id \in Deps(operations[i])
       /\ j # i /\ Repeats(operations[j])
       /\ k \notin {i, j} /\ MissingDeps(operations[k]) # {}
       /\ operations[j].id \in Deps(operations[k])
       /\ operations[k].id \in Deps(operations[j])

\* the place of the operation named id in the input list
InputPlace(id) == CHOOSE i \in 1..Len(operations) : operations[i].id = id

\* C32: within every stage of the plan, of the first round or of a later one,
\* the operations are in the same relative order as in the input list.
C32_StageOrder ==
  planned.done =>
    \A st \in 1..Len(planned.stages) :
      \A k1, k2 \in 1..Len(planned.stages[st]) :
        k1 < k2 => InputPlace(planned.stages[st][k1]) < InputPlace(planned.stages[st][k2])

\* C33: file analysis by checksum.  For a file ensure or update on an existing
\* file whose bytes differ from the operation's inline content, or that has no
\* inline content, an operation whose checksum is the sha-256 of the file's
\* bytes is analysed as needed = false with risk safe.
C33_ChecksumMatch ==
  analysed.done =>
    \A i \in 1..Len(FlatPlan) :
      LET op == FlatPlan[i].operation
          bytes == fs[Target(op)]
      IN (/\ op.kind = "file" /\ op.action \in {"ensure", "update"}
          /\ Exists(bytes)
          /\ (op.content = Undef \/ Raw(op.content.s) # bytes)
          /\ op.checksum # Undef /\ op.checksum.s = sha256(bytes)) =>
           (~analysed.results[i].needed /\ analysed.results[i].risk = "safe")

\* the document a config applier starts from: the parsed file, {} without one
PriorDocument(op) ==
  IF Exists(fs[Target(op)]) THEN Parse(fs[Target(op)]) ELSE EmptyObj
ConfigChange(actions) ==
  /\ pc = "write" /\ BuiltInApplied
  /\ Current.operation.kind = "config" /\ Current.operation.action \in actions

\* C34: config change detection compares JSON values without regard to the
\* order of an object's keys and with regard to the order of an array's items:
\* a config set or merge never goes on to write a document that is deep-equal
\* in that sense to the document it started from.
C34_DeepEqualIsUnchanged ==
  ConfigChange({"set", "merge"}) =>
    ~isDeepStrictEqual(PriorDocument(Current.operation), Parse(cur.bytes))

\* C35: apply then re-analyse: once a config set, merge or unset has been
\* applied with changed = true, the analyzer run on the same operation and
\* the resulting file reports needed = false.
C35_ApplyThenAnalyze ==
  (/\ pc = "after" /\ BuiltInApplied /\ cur.changed
   /\ Current.operation.kind = "config")
    => NotNeeded(Current, fs)

\* the built-in applier is about to run a config unset whose pointer names a
\* key and finds nothing in the document the applier starts from
UnresolvedUnset ==
  /\ pc = "apply" /\ BuiltInApplied
  /\ Current.operation.kind = "config" /\ Current.operation.action = "unset"
  /\ decodePointer(Current.operation.pointer) # <<>>
  /\ getPointerValue(PriorDocument(Current.operation), Current.operation.pointer) = Undef

\* C36: a config unset whose pointer does not resolve to an existing key (the
\* file is missing, a segment is absent or is not an object) reports
\* changed = false: it creates or writes no file, makes no backup and records
\* no mutation.
C36_UnresolvedUnsetIsNoOp ==
  [][UnresolvedUnset =>
       /\ pc' = "after" /\ ~cur'.changed
       /\ fs' = fs /\ bak' = bak /\ mutations' = mutations]_vars

\* a config set or unset at the document root, which applyConfigMutation
\* leaves unchanged on every document
RootNoOp(operation) ==
  /\ operation.kind = "config" /\ operation.action \in {"set", "unset"}
  /\ decodePointer(operation.pointer) = <<>>
  /\ \A document \in ConfigDocuments :
       LET updated == applyConfigMutation(document, operation)
       IN ~updated.changed /\ ~updated.throws

\* C37: root-pointer operations are surfaced: for every config set or unset
\* of the planned list whose pointer is empty or "/", which the executor
\* treats as a no-op, the plan's warnings hold an entry for that operation.
C37_RootPointerWarned ==
  planned.done =>
    \A i \in 1..Len(operations) :
      RootNoOp(operations[i].operation) =>
        \E w \in 1..Len(planned.warnings) : planned.warnings[w].op = operations[i].id

\* C38: the catch-all stage is emitted only for a non-empty input: the plan
\* of an empty operation list has no stages, and every stage of every plan
\* holds at least one operation.
C38_NoEmptyStage ==
  planned.done =>
    /\ Len(operations) = 0 => Len(planned.stages) = 0
    /\ \A st \in 1..Len(planned.stages) : Len(planned.stages[st]) >= 1

\* C39: the operations one SetupBuilder.build() returns have pairwise
\* distinct metadata ids, whatever the builder calls were and whichever of
\* them supplied a metadata.id of their own.
C39_BuiltIdsDistinct ==
  builder.built >= 0 =>
    \A i, j \in 1..Len(Built) : Built[i].id = Built[j].id => i = j

\* C17: the plan's overall risk is the maximum of the risks it records by
\* operation under safe < moderate < high (safe when there is no operation),
\* and the risk recorded for an operation is its analysis result's, or
\* moderate when the analysis map has no result for it.
C17_RiskMonotonicity ==
  planned.done =>
    LET by == planned.risks.byOperation
        overall == planned.risks.overall
    IN /\ DOMAIN by = IdsOf(operations)
       /\ \A id \in DOMAIN by :
            /\ by[id] = IF analysis[id] = NoAnalysis THEN "moderate" ELSE analysis[id].risk
            /\ RISK_WEIGHT(by[id]) <= RISK_WEIGHT(overall)
       /\ IF DOMAIN by = {} THEN overall = "safe" ELSE \E id \in DOMAIN by : by[id] = overall

\* a plan of three operations whose first is safe, whose second has no
\* analysis result and whose third is of high risk
C17_Witness ==
  /\ planned.done /\ Len(operations) = 3
  /\ analysis[operations[1].id] # NoAnalysis /\ analysis[operations[1].id].risk = "safe"
  /\ analysis[operations[2].id] = NoAnalysis
  /\ analysis[operations[3].id] # NoAnalysis /\ analysis[operations[3].id].risk = "high"
  /\ planned.risks.overall = "high"
  /\ planned.risks.byOperation[operations[2].id] = "moderate"

====
